---------------------------- MODULE Spec2Model ----------------------------
(***************************************************************************)
(* A model of the filter engine of arrbiter (package filter): the LRU      *)
(* cache of compiled filters (cache.go), the worker pool (pool.go) and the *)
(* concurrent evaluator (evaluator.go).                                    *)
(***************************************************************************)
EXTENDS Integers, Sequences, FiniteSets, TLC

(***************************************************************************)
(* Bounds of the model.                                                    *)
(***************************************************************************)
MaxKeys == 3
MaxCap == 2
MaxNodes == 4
MaxThreads == 2
MaxWorkers == 2
MaxCallers == 2
MaxTasks == 3
MaxMovies == 3
MaxBatchSize == 2
MaxFilters == 3
MaxStops == 1
MaxExprLen == 3
MaxCompiles == 3
MaxNames == 2
MaxCalls == 2
MaxValues == 2
MaxPieces == 4
MaxTagged == 2

VARIABLES
    \* ---- lruCache (cache.go) ----
    csize,      \* lruCache.size, the capacity
    items,      \* lruCache.items: key -> list element (Nil when absent)
    lst,        \* lruCache.evictList: the container/list state
    nkey,       \* entry.key of the entry each element holds
    cval,       \* entry.value of the entry the index holds under each key
    nalloc,     \* number of elements allocated so far
    tpc,        \* position of each thread inside Get
    tnode,      \* the element a thread's Get looked up
    cpanic,     \* a cache operation panicked
    serial,     \* the calls run one after another, and the history is kept
    lastOp,     \* history: what the last completed cache operation did
    recency,    \* history: the present keys by last use, most recent first
    putSeq,     \* history: the new keys inserted since the cache was last empty
    touched,    \* history: keys re-accessed (Get hit, Put update) since then
    latest,     \* history: the value of the latest Put of each present key
    \* ---- workerPool (pool.go) ----
    workers,    \* workerPool.workers
    queue,      \* workerPool.workChan: the buffered work items
    closed,     \* workChan has been closed
    stopped,    \* workerPool.stopped
    wst,        \* each worker goroutine: its position and the work it runs
    ppanic,     \* a goroutine panicked (send on the closed workChan)
    stopPc,     \* position of the Stop call
    stopRet,    \* what Stop returned
    sub,        \* each thread's position inside Submit, and its work item
    nextTask,   \* number of work items the callers have created
    taskLog,    \* history: each work item's fate
    stopLog,    \* the other Stop calls, and history: the first call's deadline fired
    \* ---- ConcurrentEvaluator (evaluator.go) ----
    workerCount, \* ConcurrentEvaluator.workerCount
    batchSize,  \* ConcurrentEvaluator.batchSize
    movies,     \* the record list of the call, movies
    filters,    \* the compiled filters of the call: name -> the records it is true on
    ctxDone,    \* the caller's context is cancelled
    ev,         \* each thread's evaluateConcurrent call
    bt,         \* the EvaluateBatch call of the caller
    mainPc,     \* position of the caller
    mainRet,    \* what the caller's Evaluate or EvaluateBatch call returned
    evLog,      \* history: what the chunk and filter tasks did
    \* ---- exprCompiler (filter.go) and Manager (manager.go) ----
    exprs,      \* the expression strings the callers of the run pass
    caching,    \* exprCompiler.cache != nil
    intern,     \* the expression string each cache key stands for
    ncompiled,  \* number of calls of expr.Compile so far
    compLog,    \* history: the Compile calls made and what they returned
    pcf,        \* what the last ParseAndCreateFilter call returned
    conv,       \* the ConvertLegacyFilter call: its input, filter, and the patterns to apply
    registry,   \* Manager.filters: name -> compiled filter
    reg,        \* the RegisterFilters call under way
    regLog,     \* history: the registry before the call, and what it returned
    mu,         \* Manager.mu: the thread that holds it for writing, and the readers
    mcall,      \* each thread's call on the Manager, and its position in it
    mhist       \* history: the registry after each write, and the calls that returned

cacheVars == <<csize, items, lst, nkey, cval, nalloc, tpc, tnode, cpanic,
               serial, lastOp, recency, putSeq, touched, latest>>

poolVars == <<workers, queue, closed, stopped, wst, ppanic, stopPc, stopRet,
              sub, nextTask, taskLog>>

evalVars == <<workerCount, batchSize, movies, filters, ctxDone, ev, bt,
              mainPc, mainRet, evLog>>

engineVars == <<poolVars, evalVars>>

compVars == <<exprs, caching, intern, ncompiled, compLog, pcf, conv>>

lockVars == <<mu, mcall, mhist>>

mgrVars == <<registry, reg, regLog, lockVars>>

otherVars == <<stopLog, compVars, mgrVars>>

vars == <<cacheVars, poolVars, evalVars, otherVars>>

-----------------------------------------------------------------------------
(***************************************************************************)
(* container/list as lruCache uses it.  Element 0 is the list's root       *)
(* sentinel; elements 1..MaxNodes are the elements PushFront allocates.    *)
(* An element has next, prev and list fields; the list has a len field.    *)
(***************************************************************************)
Root == 0
Nil == Root - 1
Keys == 1..MaxKeys
Nodes == 1..MaxNodes

\* The value of an entry: a compiled filter.  NoFilter is the nil value.
NoFilter == [expression |-> <<>>, id |-> 0]
CacheValues == {[expression |-> <<"t">>, id |-> i] : i \in 1..MaxValues}
Threads == 1..MaxThreads

\* list.New() / List.Init(): root.next = root.prev = &root, len = 0.  The
\* fields of the elements the list held are left as they are.
ListInit(l) ==
    [l EXCEPT !.next[Root] = Root, !.prev[Root] = Root, !.len = 0]

\* The list a new cache starts with.
ListNew ==
    [next |-> [n \in {Root} \cup Nodes |-> IF n = Root THEN Root ELSE Nil],
     prev |-> [n \in {Root} \cup Nodes |-> IF n = Root THEN Root ELSE Nil],
     inl  |-> [n \in {Root} \cup Nodes |-> FALSE],
     len  |-> 0]

\* List.insert(e, at): e.prev = at; e.next = at.next; e.prev.next = e;
\* e.next.prev = e; e.list = l; l.len++
ListInsert(l, e, at) ==
    LET n1 == at
        n2 == l.next[at]
        nx == [[l.next EXCEPT ![e] = n2] EXCEPT ![n1] = e]
        pv == [[l.prev EXCEPT ![e] = n1] EXCEPT ![n2] = e]
    IN  [next |-> nx, prev |-> pv, inl |-> [l.inl EXCEPT ![e] = TRUE],
         len |-> l.len + 1]

\* List.PushFront(v): insert a new element after the root.
ListPushFront(l, e) == ListInsert(l, e, Root)

\* List.move(e, at): if e == at return; e.prev.next = e.next;
\* e.next.prev = e.prev; e.prev = at; e.next = at.next; e.prev.next = e;
\* e.next.prev = e.  len is not touched.
ListMove(l, e, at) ==
    IF e = at THEN l
    ELSE LET nx1 == [l.next EXCEPT ![l.prev[e]] = l.next[e]]
             pv1 == [l.prev EXCEPT ![l.next[e]] = l.prev[e]]
             pv2 == [pv1 EXCEPT ![e] = at]
             nx2 == [nx1 EXCEPT ![e] = nx1[at]]
             nx3 == [nx2 EXCEPT ![pv2[e]] = e]
             pv3 == [pv2 EXCEPT ![nx3[e]] = e]
         IN  [l EXCEPT !.next = nx3, !.prev = pv3]

\* List.MoveToFront(e): if e.list != l || l.root.next == e return;
\* l.move(e, &l.root)
ListMoveToFront(l, e) ==
    IF ~l.inl[e] \/ l.next[Root] = e THEN l ELSE ListMove(l, e, Root)

\* List.Remove(e): if e.list == l: e.prev.next = e.next; e.next.prev = e.prev;
\* e.next = nil; e.prev = nil; e.list = nil; l.len--
ListRemove(l, e) ==
    IF ~l.inl[e] THEN l
    ELSE LET nx1 == [l.next EXCEPT ![l.prev[e]] = l.next[e]]
             pv1 == [l.prev EXCEPT ![l.next[e]] = l.prev[e]]
         IN  [next |-> [nx1 EXCEPT ![e] = Nil],
              prev |-> [pv1 EXCEPT ![e] = Nil],
              inl  |-> [l.inl EXCEPT ![e] = FALSE],
              len  |-> l.len - 1]

\* Mutant of ListBack: the front element instead of the back one.
ListBack_Front(l) == IF l.len = 0 THEN Nil ELSE l.next[Root]

\* List.Back(): nil when len == 0, else root.prev.
ListBack(l) == IF l.len = 0 THEN Nil ELSE l.prev[Root]

\* List.Len()
ListLen(l) == l.len

\* The elements met walking from the front (root.next) to the root, as a
\* loop "for e := l.Front(); e != nil; e = e.Next()" would, cut after fuel
\* steps.
RECURSIVE ListWalk(_, _, _)
ListWalk(l, e, fuel) ==
    IF e = Root \/ e = Nil \/ fuel = 0 THEN <<>>
    ELSE <<e>> \o ListWalk(l, l.next[e], fuel - 1)

ListElems(l) == ListWalk(l, l.next[Root], MaxNodes + 1)


-----------------------------------------------------------------------------
(***************************************************************************)
(* lruCache (cache.go).                                                    *)
(***************************************************************************)

\* newLRUCache(size): an empty list and an empty index.
CacheNew(isSerial) ==
    /\ serial = isSerial
    /\ csize \in 1..MaxCap
    /\ items = [k \in Keys |-> Nil]
    /\ lst = ListNew
    /\ nkey = [n \in Nodes |-> 0]
    /\ cval = [k \in Keys |-> NoFilter]
    /\ nalloc = 0
    /\ tpc = [t \in Threads |-> "idle"]
    /\ tnode = [t \in Threads |-> Nil]
    /\ cpanic = FALSE
    /\ lastOp = [op |-> "new", key |-> 0, found |-> FALSE, isNew |-> FALSE,
                 full |-> FALSE, evicted |-> {}, lru |-> 0, mru |-> 0,
                 value |-> NoFilter]
    /\ recency = <<>>
    /\ putSeq = <<>>
    /\ touched = {}
    /\ latest = [k \in Keys |-> NoFilter]

\* The keys the index holds, and the keys of the entries on the list.
IndexKeys == {k \in Keys : items[k] # Nil}
ListKeySeq(l) == [i \in 1..Len(ListElems(l)) |-> nkey[ListElems(l)[i]]]
ListKeys(l) == {ListKeySeq(l)[i] : i \in 1..Len(ListKeySeq(l))}

\* lruCache.Size(): c.evictList.Len()
Size == ListLen(lst)

\* Mutant of OverCapacity: the test is off by one.
OverCapacity_OffByOne(l, size) == ListLen(l) > size + 1

\* Put's test "c.evictList.Len() > c.size".
OverCapacity(l, size) == ListLen(l) > size

\* removeOldest(): node := Back(); if node != nil { Remove(node);
\* delete(items, node.Value.(*entry).key) }.  The root element holds no entry:
\* the type assertion on its nil Value panics.
RemoveOldest(l, it, nk) ==
    LET node == ListBack(l) IN
    IF node = Nil THEN [lst |-> l, items |-> it, panic |-> FALSE]
    ELSE IF node = Root THEN [lst |-> ListRemove(l, node), items |-> it, panic |-> TRUE]
    ELSE [lst |-> ListRemove(l, node),
          items |-> [it EXCEPT ![nk[node]] = Nil],
          panic |-> FALSE]

\* The body of Put(key, value) under the write lock.
PutBody(k) ==
    IF items[k] # Nil
    THEN [lst |-> ListMoveToFront(lst, items[k]), items |-> items,
          node |-> Nil, panic |-> FALSE]
    ELSE LET node == nalloc + 1
             l1 == ListPushFront(lst, node)
             it1 == [items EXCEPT ![k] = node]
         IN  IF OverCapacity(l1, csize)
             THEN LET r == RemoveOldest(l1, it1, [nkey EXCEPT ![node] = k])
                  IN  [lst |-> r.lst, items |-> r.items, node |-> node,
                       panic |-> r.panic]
             ELSE [lst |-> l1, items |-> it1, node |-> node, panic |-> FALSE]

\* The history variables are kept in serial runs only.
Kept(new, old) == IF serial THEN new ELSE old

\* History: the order of last use of the present keys (most recent first),
\* kept from the calls and the index, not from the list: a used key moves to
\* the front, a key that left the index leaves the order.
RECURSIVE SeqWithout(_, _)
SeqWithout(s, k) ==
    IF s = <<>> THEN <<>>
    ELSE IF Head(s) = k THEN SeqWithout(Tail(s), k)
    ELSE <<Head(s)>> \o SeqWithout(Tail(s), k)

\* Mutant of ClearIndex: the index is kept.
ClearIndex_Kept == items

\* Clear: "c.items = make(map[string]*list.Element)".
ClearIndex == [k \in Keys |-> Nil]

\* Mutant of UpdateValue: the entry keeps the value it had.
UpdateValue_Kept(old, v) == old

\* Put on a present key: "node.Value.(*entry).value = value".
UpdateValue(old, v) == v

\* lruCache.Put(key, value)
Put(t, k, v) ==
    /\ ~cpanic
    /\ tpc[t] = "idle"
    /\ items[k] # Nil \/ nalloc < MaxNodes
    /\ LET r == PutBody(k) IN
       /\ lst' = r.lst
       /\ items' = r.items
       /\ cpanic' = r.panic
       /\ cval' = [j \in Keys |->
                     IF r.items[j] = Nil THEN NoFilter
                     ELSE IF j # k THEN cval[j]
                     ELSE IF items[k] # Nil THEN UpdateValue(cval[k], v)
                     ELSE v]
       /\ nalloc' = IF r.node = Nil THEN nalloc ELSE r.node
       /\ nkey' = IF r.node = Nil THEN nkey ELSE [nkey EXCEPT ![r.node] = k]
       /\ lastOp' = Kept([op |-> "put", key |-> k, found |-> items[k] # Nil,
                     isNew |-> items[k] = Nil,
                     full |-> ListLen(lst) >= csize,
                     evicted |-> {j \in Keys : items[j] # Nil /\ r.items[j] = Nil},
                     lru |-> IF recency = <<>> THEN 0 ELSE recency[Len(recency)],
                     mru |-> IF recency = <<>> THEN 0 ELSE recency[1],
                     value |-> NoFilter], lastOp)
       /\ recency' = Kept(SelectSeq(<<k>> \o SeqWithout(recency, k),
                                    LAMBDA j : r.items[j] # Nil), recency)
       /\ putSeq' = Kept(IF items[k] = Nil THEN Append(putSeq, k) ELSE putSeq,
                         putSeq)
       /\ touched' = Kept(IF items[k] # Nil THEN touched \cup {k} ELSE touched,
                          touched)
       /\ latest' = Kept([j \in Keys |->
                              IF r.items[j] = Nil THEN NoFilter
                              ELSE IF j = k THEN v ELSE latest[j]], latest)
    /\ UNCHANGED <<csize, tpc, tnode, serial>>
    /\ UNCHANGED engineVars

\* Get(key), first half: the lookup "node, exists := c.items[key]" under the
\* read lock; a miss returns (nil, false).
GetLookup(t, k) ==
    /\ ~cpanic
    /\ tpc[t] = "idle"
    /\ IF items[k] = Nil
       THEN UNCHANGED <<tpc, tnode>>
       ELSE /\ tpc' = [tpc EXCEPT ![t] = "promote"]
            /\ tnode' = [tnode EXCEPT ![t] = items[k]]
    /\ UNCHANGED <<csize, items, lst, nkey, cval, nalloc, cpanic>>
    /\ UNCHANGED <<serial, lastOp, recency, putSeq, touched, latest>>
    /\ UNCHANGED engineVars

\* Mutant of Promote: the element stays where it is.
Promote_None(l, node) == l

\* What Get's second half does to the list: c.evictList.MoveToFront(node).
Promote(l, node) == ListMoveToFront(l, node)

\* Get(key), second half: the promotion under the write lock, then the
\* return of (value, true).
GetPromote(t) ==
    /\ ~cpanic
    /\ tpc[t] = "promote"
    /\ lst' = Promote(lst, tnode[t])
    /\ tpc' = [tpc EXCEPT ![t] = "idle"]
    /\ tnode' = [tnode EXCEPT ![t] = Nil]
    /\ UNCHANGED <<csize, items, nkey, cval, nalloc, cpanic>>
    /\ UNCHANGED <<serial, lastOp, recency, putSeq, touched, latest>>
    /\ UNCHANGED engineVars

\* lruCache.Clear(): a fresh index and evictList.Init().
Clear(t) ==
    /\ ~cpanic
    /\ tpc[t] = "idle"
    /\ items' = ClearIndex
    /\ lst' = ListInit(lst)
    /\ lastOp' = Kept([lastOp EXCEPT !.op = "clear", !.key = 0, !.found = FALSE,
                                     !.isNew = FALSE, !.full = FALSE,
                                     !.evicted = {}, !.value = NoFilter], lastOp)
    /\ recency' = Kept(<<>>, recency)
    /\ putSeq' = Kept(<<>>, putSeq)
    /\ touched' = Kept({}, touched)
    /\ cval' = [k \in Keys |-> IF items'[k] = Nil THEN NoFilter ELSE cval[k]]
    /\ latest' = Kept([k \in Keys |-> NoFilter], latest)
    /\ UNCHANGED <<csize, nkey, nalloc, tpc, tnode, cpanic, serial>>
    /\ UNCHANGED engineVars

\* A whole Get(key) call with no other call in between: the lookup, then
\* on a hit the promotion.
Get(t, k) ==
    /\ ~cpanic
    /\ tpc[t] = "idle"
    /\ lst' = IF items[k] = Nil THEN lst ELSE Promote(lst, items[k])
    /\ lastOp' = [lastOp EXCEPT !.op = "get", !.key = k, !.found = items[k] # Nil,
                                !.isNew = FALSE, !.full = FALSE, !.evicted = {},
                                !.value = IF items[k] = Nil THEN NoFilter
                                          ELSE cval[k]]
    /\ recency' = IF items[k] = Nil THEN recency
                  ELSE <<k>> \o SeqWithout(recency, k)
    /\ touched' = IF items[k] = Nil THEN touched ELSE touched \cup {k}
    /\ UNCHANGED <<csize, items, nkey, cval, nalloc, tpc, tnode, cpanic, serial,
                   putSeq, latest>>
    /\ UNCHANGED engineVars

-----------------------------------------------------------------------------
(***************************************************************************)
(* workerPool (pool.go).  Threads 1..MaxWorkers are the pool's worker       *)
(* goroutines, thread 0 is the caller of the evaluator, the threads above  *)
(* MaxWorkers are callers that submit plain work to the pool or call       *)
(* Evaluate themselves.                                                    *)
(***************************************************************************)
Main == 0
WorkerIds == 1..MaxWorkers
Callers == (MaxWorkers + 1)..(MaxWorkers + MaxCallers)
Submitters == {Main} \cup WorkerIds \cup Callers
TaskIds == 1..MaxTasks

\* A work item (the func() passed to Submit): plain work of a caller, a chunk
\* of an evaluateConcurrent call, or the per-filter task of EvaluateBatch.
NoTask == [kind |-> "none", call |-> 0, index |-> 0, lo |-> 0, hi |-> 0]
WorkTask(id) == [kind |-> "work", call |-> 0, index |-> id, lo |-> 0, hi |-> 0]

NoSub == [pc |-> "none", task |-> NoTask]

\* NewWorkerPool(workers): "if workers <= 0 { workers = 1 }".
PoolWorkers(w) == IF w <= 0 THEN 1 ELSE w

\* make(chan func(), workers*2)
QueueCap_Triple == workers * 3
QueueCap == workers * 2

\* NewWorkerPool: the workers are started and wait for work.
PoolNew(w) ==
    /\ workers = PoolWorkers(w)
    /\ queue = <<>>
    /\ closed = FALSE
    /\ stopped = FALSE
    /\ wst = [i \in WorkerIds |->
                 [pc |-> IF i <= PoolWorkers(w) THEN "idle" ELSE "absent",
                  task |-> NoTask]]
    /\ ppanic = FALSE
    /\ stopPc = "idle"
    /\ stopRet = "none"
    /\ sub = [t \in Submitters |-> NoSub]
    /\ nextTask = 0
    /\ taskLog = [id \in TaskIds |->
                     [state |-> "unused", late |-> FALSE, caught |-> FALSE,
                      waiting |-> FALSE, inflight |-> FALSE, runs |-> 0]]
    /\ stopLog = [expired |-> FALSE, calls |-> 0, ret |-> "none",
                  other |-> "none", otherExpired |-> FALSE, otherRet |-> "none"]

\* Mutant of SubmitEntry: the stopped flag is not looked at.
SubmitEntry_NoCheck(task) == [pc |-> "send", task |-> task]

\* Submit, its first statement: "if p.stopped.Load() { return ErrPoolStopped }".
\* The frame a thread is in after it.
SubmitEntry(task) ==
    IF stopped THEN [pc |-> "stopped", task |-> task]
    ELSE [pc |-> "send", task |-> task]

\* History of a plain work item whose Submit call moved to frame f.
LogSubmit(f) ==
    IF f.task.kind # "work" THEN taskLog
    ELSE [taskLog EXCEPT ![f.task.index].state =
             CASE f.pc = "ok" -> "accepted"
               [] f.pc = "stopped" -> "rejected"
               [] OTHER -> @]

\* A send "p.workChan <- work" that can proceed: it panics on a closed
\* channel, else it puts the work into the buffer.
SendNow(t) ==
    IF closed
    THEN /\ ppanic' = TRUE
         /\ UNCHANGED <<queue, sub, taskLog>>
    ELSE /\ queue' = Append(queue, sub[t].task)
         /\ sub' = [sub EXCEPT ![t].pc = "ok"]
         /\ taskLog' = LogSubmit([sub[t] EXCEPT !.pc = "ok"])
         /\ UNCHANGED ppanic

\* Submit, the outer select: "case p.workChan <- work: return nil", and
\* "default:" when the buffer is full.
SubmitSend(t) ==
    /\ ~ppanic
    /\ sub[t].pc = "send"
    /\ IF closed \/ Len(queue) < QueueCap
       THEN SendNow(t)
       ELSE /\ sub' = [sub EXCEPT ![t].pc = "blocked"]
            /\ UNCHANGED <<queue, ppanic, taskLog>>
    /\ UNCHANGED <<workers, closed, stopped, wst, stopPc, stopRet, nextTask>>
    /\ UNCHANGED <<cacheVars, evalVars, otherVars>>

\* Submit, the inner select, "case p.workChan <- work: return nil": the
\* blocked send proceeds once there is room, and panics once the channel is
\* closed.
SubmitBlockedSend(t) ==
    /\ ~ppanic
    /\ sub[t].pc = "blocked"
    /\ closed \/ Len(queue) < QueueCap
    /\ SendNow(t)
    /\ UNCHANGED <<workers, closed, stopped, wst, stopPc, stopRet, nextTask>>
    /\ UNCHANGED <<cacheVars, evalVars, otherVars>>

\* Submit, the inner select, "case <-time.After(time.Second)": the timer
\* fired first; "if p.stopped.Load() { return ErrPoolStopped }", else on to
\* the last send.
SubmitTimeout(t) ==
    /\ ~ppanic
    /\ sub[t].pc = "blocked"
    /\ sub' = [sub EXCEPT ![t].pc = IF stopped THEN "stopped" ELSE "retry"]
    /\ taskLog' = LogSubmit([sub[t] EXCEPT !.pc = IF stopped THEN "stopped" ELSE "retry"])
    /\ UNCHANGED <<workers, queue, closed, stopped, wst, ppanic, stopPc, stopRet,
                   nextTask>>
    /\ UNCHANGED <<cacheVars, evalVars, otherVars>>

\* Submit, "// Try once more": the unconditional send "p.workChan <- work",
\* which waits for room and panics on a closed channel.
SubmitRetry(t) ==
    /\ ~ppanic
    /\ sub[t].pc = "retry"
    /\ closed \/ Len(queue) < QueueCap
    /\ SendNow(t)
    /\ UNCHANGED <<workers, closed, stopped, wst, stopPc, stopRet, nextTask>>
    /\ UNCHANGED <<cacheVars, evalVars, otherVars>>

\* A caller calls Submit with a new plain work item.
CallerSubmit(c) ==
    /\ ~ppanic
    /\ sub[c].pc = "none"
    /\ nextTask < MaxTasks
    /\ nextTask' = nextTask + 1
    /\ sub' = [sub EXCEPT ![c] = SubmitEntry(WorkTask(nextTask + 1))]
    /\ taskLog' = [LogSubmit(SubmitEntry(WorkTask(nextTask + 1)))
                      EXCEPT ![nextTask + 1].late = stopPc # "idle",
                             ![nextTask + 1].state =
                                 IF @ = "unused" THEN "submitting" ELSE @]
    /\ UNCHANGED <<workers, queue, closed, stopped, wst, ppanic, stopPc, stopRet>>
    /\ UNCHANGED <<cacheVars, evalVars, otherVars>>

\* The caller's Submit call has returned (nil or ErrPoolStopped).
CallerReturn(c) ==
    /\ ~ppanic
    /\ sub[c].pc \in {"ok", "stopped"}
    /\ sub' = [sub EXCEPT ![c] = NoSub]
    /\ UNCHANGED <<workers, queue, closed, stopped, wst, ppanic, stopPc, stopRet,
                   nextTask, taskLog>>
    /\ UNCHANGED <<cacheVars, evalVars, otherVars>>

\* worker(): "for work := range p.workChan" receives the next work item.
WorkerReceive(w) ==
    /\ ~ppanic
    /\ wst[w].pc = "idle"
    /\ queue # <<>>
    /\ wst' = [wst EXCEPT ![w] = [pc |-> "run", task |-> Head(queue)]]
    /\ queue' = Tail(queue)
    /\ UNCHANGED <<workers, closed, stopped, ppanic, stopPc, stopRet, sub,
                   nextTask, taskLog>>
    /\ UNCHANGED <<cacheVars, evalVars, otherVars>>

\* Mutant of WorkerExit: the worker leaves as soon as the channel is closed,
\* whatever is still buffered.
WorkerExit_NoDrain(w) ==
    /\ ~ppanic
    /\ wst[w].pc = "idle"
    /\ closed
    /\ wst' = [wst EXCEPT ![w].pc = "exited"]
    /\ UNCHANGED <<workers, queue, closed, stopped, ppanic, stopPc, stopRet, sub,
                   nextTask, taskLog>>
    /\ UNCHANGED <<cacheVars, evalVars, otherVars>>

\* worker(): the range loop ends when workChan is closed and drained;
\* "defer p.wg.Done()".
WorkerExit(w) ==
    /\ ~ppanic
    /\ wst[w].pc = "idle"
    /\ queue = <<>>
    /\ closed
    /\ wst' = [wst EXCEPT ![w].pc = "exited"]
    /\ UNCHANGED <<workers, queue, closed, stopped, ppanic, stopPc, stopRet, sub,
                   nextTask, taskLog>>
    /\ UNCHANGED <<cacheVars, evalVars, otherVars>>

\* worker(): "work()" for a caller's plain work item.
WorkerRunWork(w) ==
    /\ ~ppanic
    /\ wst[w].pc = "run"
    /\ wst[w].task.kind = "work"
    /\ taskLog' = [taskLog EXCEPT ![wst[w].task.index].runs = @ + 1]
    /\ wst' = [wst EXCEPT ![w] = [pc |-> "idle", task |-> NoTask]]
    /\ UNCHANGED <<workers, queue, closed, stopped, ppanic, stopPc, stopRet, sub,
                   nextTask>>
    /\ UNCHANGED <<cacheVars, evalVars, otherVars>>

\* The plain work items whose Submit call is past its stopped check and has
\* not yet sent or returned.
InSubmit ==
    {sub[t].task.index : t \in {u \in Submitters :
                                  /\ sub[u].pc \in {"send", "blocked", "retry"}
                                  /\ sub[u].task.kind = "work"}}

\* The plain work items waiting in the queue.
Queued == {queue[i].index : i \in {j \in 1..Len(queue) : queue[j].kind = "work"}}

\* Stop, inside stopOnce.Do: "p.stopped.Store(true)".  History: the Submit
\* calls this Stop call finds under way, and the work items it finds waiting.
StopStore ==
    /\ ~ppanic
    /\ stopPc = "idle"
    /\ stopped' = TRUE
    /\ stopPc' = "stored"
    /\ taskLog' = [id \in TaskIds |->
                      [taskLog[id] EXCEPT !.caught = id \in InSubmit,
                                          !.waiting = id \in Queued]]
    /\ UNCHANGED <<workers, queue, closed, wst, ppanic, stopRet, sub, nextTask>>
    /\ UNCHANGED <<cacheVars, evalVars, otherVars>>

\* Stop: "close(p.workChan)".
StopClose ==
    /\ ~ppanic
    /\ stopPc = "stored"
    /\ closed' = TRUE
    /\ stopPc' = "waiting"
    /\ UNCHANGED <<workers, queue, stopped, wst, ppanic, stopRet, sub, nextTask,
                   taskLog>>
    /\ UNCHANGED <<cacheVars, evalVars, otherVars>>

\* Stop: "case <-done": p.wg.Wait() returned, every worker has exited.
StopDone ==
    /\ ~ppanic
    /\ stopPc = "waiting"
    /\ \A w \in WorkerIds : wst[w].pc \in {"exited", "absent"}
    /\ stopPc' = "done"
    /\ stopRet' = "nil"
    /\ UNCHANGED <<workers, queue, closed, stopped, wst, ppanic, sub, nextTask,
                   taskLog>>
    /\ UNCHANGED <<cacheVars, evalVars, otherVars>>

\* Mutant of DeadlineResult: err is not set when the deadline fires.
DeadlineResult_Nil == "nil"

\* Stop: "err = ctx.Err()", what Stop returns when its deadline fired.
DeadlineResult == "ctxErr"

\* The plain work items the workers are running.
InFlight ==
    {wst[w].task.index : w \in {u \in WorkerIds : /\ wst[u].pc = "run"
                                                   /\ wst[u].task.kind = "work"}}

\* Stop: "case <-ctx.Done(): err = ctx.Err()", the deadline of the Stop call.
\* History: the work items in flight at that moment.
StopDeadline ==
    /\ ~ppanic
    /\ stopPc = "waiting"
    /\ stopPc' = "done"
    /\ stopRet' = DeadlineResult
    /\ taskLog' = [id \in TaskIds |->
                      [taskLog[id] EXCEPT !.inflight = id \in InFlight]]
    /\ stopLog' = [stopLog EXCEPT !.expired = TRUE]
    /\ UNCHANGED <<workers, queue, closed, stopped, wst, ppanic, sub, nextTask>>
    /\ UNCHANGED <<cacheVars, evalVars, compVars, mgrVars>>

\* Mutant of OnceDo: the function is called on every call.
OnceDo_Always(done) == TRUE

\* stopOnce.Do(f): f is called unless an earlier Do call has completed.
OnceDo(done) == ~done

\* A Stop call made after the first one returned.  stopOnce.Do does not call
\* the function again and Stop returns its "var err error", nil.  (Were the
\* function called again, close(p.workChan) would panic on the closed
\* channel.)
StopAgain ==
    /\ ~ppanic
    /\ stopPc = "done"
    /\ stopLog.calls < MaxStops
    /\ IF OnceDo(stopPc = "done")
       THEN /\ stopped' = TRUE
            /\ ppanic' = closed
            /\ closed' = TRUE
            /\ stopLog' = [stopLog EXCEPT !.calls = @ + 1]
       ELSE /\ stopLog' = [stopLog EXCEPT !.calls = @ + 1, !.ret = "nil"]
            /\ UNCHANGED <<stopped, ppanic, closed>>
    /\ UNCHANGED <<workers, queue, wst, stopPc, stopRet, sub, nextTask, taskLog>>
    /\ UNCHANGED <<cacheVars, evalVars, compVars, mgrVars>>

\* A Stop call made by another thread while the first call is inside
\* stopOnce.Do: Once.Do finds the Once not done and waits for the Once's
\* mutex, which the first call holds until its function returns.
StopOther ==
    /\ ~ppanic
    /\ stopPc \in {"stored", "waiting"}
    /\ stopLog.other = "none"
    /\ stopLog' = [stopLog EXCEPT !.other = "blocked"]
    /\ UNCHANGED <<poolVars, cacheVars, evalVars, compVars, mgrVars>>

\* The deadline of the other Stop call's context fires.  The call is not in
\* a select on ctx.Done(): it stays where it is.
StopOtherDeadline ==
    /\ ~ppanic
    /\ stopLog.other = "blocked"
    /\ ~stopLog.otherExpired
    /\ stopLog' = [stopLog EXCEPT !.otherExpired = TRUE]
    /\ UNCHANGED <<poolVars, cacheVars, evalVars, compVars, mgrVars>>

\* The first call's function has returned: Once.Do of the other call gets
\* the mutex, finds the Once done and returns without calling the function;
\* Stop returns its "var err error", nil.
StopOtherReturn ==
    /\ ~ppanic
    /\ stopLog.other = "blocked"
    /\ stopPc = "done"
    /\ stopLog' = [stopLog EXCEPT !.other = "returned", !.otherRet = "nil"]
    /\ UNCHANGED <<poolVars, cacheVars, evalVars, compVars, mgrVars>>

-----------------------------------------------------------------------------
(***************************************************************************)
(* ConcurrentEvaluator (evaluator.go).  The records of the call are        *)
(* movies[0..n-1], modelled as the distinct values 1..n in input order; a  *)
(* compiled filter is its program, given by the outcome of expr.Run on     *)
(* each record: true, false, or a runtime error.                           *)
(***************************************************************************)
EvalThreads == {Main} \cup WorkerIds \cup Callers
FilterNames == 1..MaxFilters

Min(a, b) == IF a < b THEN a ELSE b
Max(a, b) == IF a > b THEN a ELSE b

\* The integer division of Go, a / b for b # 0: the quotient is cut towards
\* zero.
GoDiv(a, b) ==
    LET abs(x) == IF x < 0 THEN 0 - x ELSE x
        q == abs(a) \div abs(b)
    IN  IF (a >= 0) = (b > 0) THEN q ELSE 0 - q

\* len(movies)
nmovies == Len(movies)

RunOutcomes == {"true", "false", "error"}

\* Mutant of FilterEvaluate: a record whose run fails counts as a match.
FilterEvaluate_ErrorMatches(F, m) == F[m] # "false"

\* exprFilter.Evaluate(movie): "result, err := expr.Run(f.program, env);
\* if err != nil { return false }; return result.(bool)".
FilterEvaluate(F, m) == IF F[m] = "error" THEN FALSE ELSE F[m] = "true"

\* The loop "for _, movie := range chunk { if filter.Evaluate(movie) {
\* matches = append(matches, movie) } }" over chunk = movies[lo:hi].
ChunkMatches(F, lo, hi) ==
    SelectSeq(SubSeq(movies, lo + 1, hi), LAMBDA m : FilterEvaluate(F, m))

\* evaluateSequential(filter, movies)
EvaluateSequential(F) == ChunkMatches(F, 0, nmovies)

\* Evaluate: "if len(movies) < e.batchSize { return e.evaluateSequential(...) }",
\* the test that keeps a short list on the calling thread.
BelowBatchSize_Inclusive == nmovies <= batchSize
BelowBatchSize == nmovies < batchSize

\* Mutant of AppendMatches: "matches := chunk[:0]", the matches are written
\* over the records of the chunk.
AppendMatches_InPlace(F, lo, hi) ==
    [i \in 1..Len(movies) |->
        IF lo < i /\ i <= lo + Len(ChunkMatches(F, lo, hi))
        THEN ChunkMatches(F, lo, hi)[i - lo] ELSE movies[i]]

\* The caller's array after the loop over chunk = movies[lo:hi]: "matches :=
\* make([]radarr.MovieInfo, 0, len(chunk)/10)" is an array of its own, "for
\* _, movie := range chunk" copies each record and "append(matches, movie)"
\* writes the copy to that array, so that the caller's array is not written.
AppendMatches(F, lo, hi) == movies

\* chunkSize := max(len(movies)/e.workerCount, e.batchSize)
ChunkSize_PerWorker == Max(GoDiv(nmovies, workerCount), 1)
ChunkSize == Max(GoDiv(nmovies, workerCount), batchSize)

\* evaluateConcurrent panics before it submits a chunk: "len(movies) /
\* e.workerCount" with a worker count of 0 (integer divide by zero); with a
\* chunk size of 0, "len(movies)/chunkSize" in the make of resultChan; with
\* a chunk size below 0, the make with a size below 0 or "movies[i:end]"
\* with end = chunkSize.
ConcurrentPanics == workerCount = 0 \/ ChunkSize <= 0

\* end := min(i+chunkSize, len(movies))
ChunkEnd(i) == Min(i + ChunkSize, nmovies)

\* make(chan chunkResult, (len(movies)/chunkSize)+1)
ResultChanCap == (nmovies \div ChunkSize) + 1

\* The filter a call evaluates: call 0 is the caller's own Evaluate call with
\* the first filter, call k the Evaluate call that evaluates filter k (the
\* task of filter k in a batch, the k-th of several top-level callers).
FilterOf(call) == IF call = 0 THEN filters[1] ELSE filters[call]

ChunkTask(call, index, lo, hi) ==
    [kind |-> "chunk", call |-> call, index |-> index, lo |-> lo, hi |-> hi]
FilterTask(name) ==
    [kind |-> "filter", call |-> name, index |-> 0, lo |-> 0, hi |-> 0]

NoRet == [val |-> <<>>, err |-> "none"]

\* The locals of an evaluateConcurrent call: the loop variable i, chunkIndex,
\* the WaitGroup counter, resultChan, the results map, and what it returned.
NoEv == [pc |-> "none", call |-> 0, i |-> 0, chunkIndex |-> 0, wg |-> 0,
         rchan |-> <<>>, results |-> <<>>, arrived |-> <<>>, ret |-> NoRet]
EvalStart(call) == [NoEv EXCEPT !.pc = "submit", !.call = call]

\* The locals of the EvaluateBatch call: the filters still to submit, the
\* WaitGroup counter, resultChan and the results map.
NoBt == [pc |-> "none", todo |-> {}, wg |-> 0, rchan |-> <<>>, results |-> <<>>]

\* Mutant of Combine: the chunks are appended from the last index down.
RECURSIVE CombineDown(_, _)
CombineDown(results, i) ==
    IF i < 0 THEN <<>>
    ELSE (IF i \in DOMAIN results THEN results[i] ELSE <<>>)
             \o CombineDown(results, i - 1)
Combine_Reversed(results) == CombineDown(results, Cardinality(DOMAIN results) - 1)

\* "for i := 0; i < len(results); i++ { allMatches = append(allMatches,
\* results[i]...) }": a missing index reads as an empty slice.
RECURSIVE CombineFrom(_, _)
CombineFrom(results, i) ==
    IF i >= Cardinality(DOMAIN results) THEN <<>>
    ELSE (IF i \in DOMAIN results THEN results[i] ELSE <<>>)
             \o CombineFrom(results, i + 1)
Combine(results) == CombineFrom(results, 0)

\* Mutant of FinalCheck: the context is not looked at after the collection.
FinalCheck_Skipped(results) == [val |-> Combine(results), err |-> "nil"]

\* evaluateConcurrent after the collection loop: "select { case <-ctx.Done():
\* return nil, ctx.Err() ...}", else the combined matches.
FinalCheck(results) ==
    IF ctxDone THEN [val |-> <<>>, err |-> "ctxErr"]
    ELSE [val |-> Combine(results), err |-> "nil"]

\* NewConcurrentEvaluator(WithWorkers(w), WithBatchSize(b)) and the inputs of
\* the caller's call.
EvalNew(w, b, n, fs) ==
    /\ workerCount = w
    /\ batchSize = b
    /\ movies = [i \in 1..n |-> i]
    /\ filters = fs
    /\ ctxDone = FALSE
    /\ ev = [t \in EvalThreads |-> NoEv]
    /\ bt = NoBt
    /\ mainPc = "start"
    /\ mainRet = NoRet
    /\ evLog = [skipped |-> {}, evaluated |-> {}, unevaluated |-> {},
                ctxAtCall |-> FALSE]

\* The caller's context is cancelled (cancel() or its deadline).
Cancel ==
    /\ ~ppanic
    /\ ~ctxDone
    /\ ctxDone' = TRUE
    /\ UNCHANGED <<workerCount, batchSize, movies, filters, ev, bt, mainPc,
                   mainRet, evLog>>
    /\ UNCHANGED <<cacheVars, poolVars, otherVars>>

\* Evaluate(ctx, filter, movies) called by the caller.
MainEvaluate ==
    /\ ~ppanic
    /\ mainPc = "start"
    /\ evLog' = [evLog EXCEPT !.ctxAtCall = ctxDone]
    /\ IF nmovies = 0
       THEN /\ mainRet' = [val |-> <<>>, err |-> "nil"]
            /\ mainPc' = "done"
            /\ UNCHANGED ev
       ELSE IF BelowBatchSize
       THEN /\ mainRet' = [val |-> EvaluateSequential(FilterOf(0)), err |-> "nil"]
            /\ mainPc' = "done"
            /\ UNCHANGED ev
       ELSE IF ConcurrentPanics
       THEN /\ mainPc' = "panic"
            /\ UNCHANGED <<ev, mainRet>>
       ELSE /\ ev' = [ev EXCEPT ![Main] = EvalStart(0)]
            /\ mainPc' = "evaluating"
            /\ UNCHANGED mainRet
    /\ movies' = IF 0 < nmovies /\ BelowBatchSize
                 THEN AppendMatches(FilterOf(0), 0, nmovies) ELSE movies
    /\ UNCHANGED <<workerCount, batchSize, filters, ctxDone, bt>>
    /\ UNCHANGED <<cacheVars, poolVars, otherVars>>

\* evaluateConcurrent, one turn of the submit loop up to the call of Submit:
\* "wg.Add(1); chunk := movies[i:end]; index := chunkIndex; chunkIndex++;
\* err := e.pool.Submit(...)".
EvalSubmitChunk(t) ==
    /\ ~ppanic
    /\ ev[t].pc = "submit"
    /\ sub[t].pc = "none"
    /\ ev[t].i < nmovies
    /\ sub' = [sub EXCEPT ![t] =
                  SubmitEntry(ChunkTask(ev[t].call, ev[t].chunkIndex,
                                        ev[t].i, ChunkEnd(ev[t].i)))]
    /\ ev' = [ev EXCEPT ![t].wg = @ + 1, ![t].chunkIndex = @ + 1]
    /\ UNCHANGED <<workers, queue, closed, stopped, wst, ppanic, stopPc, stopRet,
                   nextTask, taskLog>>
    /\ UNCHANGED <<workerCount, batchSize, movies, filters, ctxDone, bt, mainPc,
                   mainRet, evLog>>
    /\ UNCHANGED <<cacheVars, otherVars>>

\* evaluateConcurrent, Submit has returned: "if err != nil { wg.Done();
\* return nil, err }", else "i += chunkSize" and the loop test.
EvalSubmitReturn(t) ==
    /\ ~ppanic
    /\ ev[t].pc = "submit"
    /\ sub[t].pc \in {"ok", "stopped"}
    /\ sub' = [sub EXCEPT ![t] = NoSub]
    /\ ev' = IF sub[t].pc = "stopped"
             THEN [ev EXCEPT ![t].wg = @ - 1, ![t].pc = "returned",
                             ![t].ret = [val |-> <<>>, err |-> "ErrPoolStopped"]]
             ELSE [ev EXCEPT ![t].i = @ + ChunkSize,
                             ![t].pc = IF ev[t].i + ChunkSize < nmovies
                                       THEN "submit" ELSE "collect"]
    /\ UNCHANGED <<workers, queue, closed, stopped, wst, ppanic, stopPc, stopRet,
                   nextTask, taskLog>>
    /\ UNCHANGED <<workerCount, batchSize, movies, filters, ctxDone, bt, mainPc,
                   mainRet, evLog>>
    /\ UNCHANGED <<cacheVars, otherVars>>

\* evaluateConcurrent, "for result := range resultChan {
\* results[result.order] = result.matches }": one result is received.
EvalCollect(t) ==
    /\ ~ppanic
    /\ ev[t].pc = "collect"
    /\ ev[t].rchan # <<>>
    /\ ev' = [ev EXCEPT
                 ![t].rchan = Tail(@),
                 ![t].results = (Head(ev[t].rchan).order :> Head(ev[t].rchan).matches) @@ @,
                 ![t].arrived = Append(@, Head(ev[t].rchan).order)]
    /\ UNCHANGED <<workerCount, batchSize, movies, filters, ctxDone, bt, mainPc,
                   mainRet, evLog>>
    /\ UNCHANGED <<cacheVars, poolVars, otherVars>>

\* evaluateConcurrent: wg.Wait() has returned and resultChan is closed and
\* drained, the range loop ends; the last context check and the return.
EvalFinish(t) ==
    /\ ~ppanic
    /\ ev[t].pc = "collect"
    /\ ev[t].rchan = <<>>
    /\ ev[t].wg = 0
    /\ ev' = [ev EXCEPT ![t].pc = "returned", ![t].ret = FinalCheck(ev[t].results)]
    /\ UNCHANGED <<workerCount, batchSize, movies, filters, ctxDone, bt, mainPc,
                   mainRet, evLog>>
    /\ UNCHANGED <<cacheVars, poolVars, otherVars>>

\* The caller's Evaluate call returns what evaluateConcurrent returned.
MainEvaluateReturn ==
    /\ ~ppanic
    /\ mainPc = "evaluating"
    /\ ev[Main].pc = "returned"
    /\ mainRet' = ev[Main].ret
    /\ mainPc' = "done"
    /\ UNCHANGED <<workerCount, batchSize, movies, filters, ctxDone, ev, bt, evLog>>
    /\ UNCHANGED <<cacheVars, poolVars, otherVars>>

\* The threads whose evaluateConcurrent call a chunk task belongs to and is
\* still collecting.
Owners_AnyCall(call) ==
    {t \in EvalThreads : ev[t].pc \in {"submit", "collect"}}
Owners(call) ==
    {t \in EvalThreads : ev[t].pc \in {"submit", "collect"} /\ ev[t].call = call}

\* worker(): "work()" for a chunk task: "defer wg.Done()"; the context check
\* "case <-ctx.Done(): return"; else the chunk is evaluated and
\* "resultChan <- chunkResult{matches: matches, order: index}".
WorkerRunChunk(w) ==
    /\ ~ppanic
    /\ wst[w].pc = "run"
    /\ wst[w].task.kind = "chunk"
    /\ LET task == wst[w].task
           res == [matches |-> ChunkMatches(FilterOf(task.call), task.lo, task.hi),
                   order |-> task.index]
       IN  /\ ctxDone \/ \A t \in Owners(task.call) : Len(ev[t].rchan) < ResultChanCap
           /\ ev' = [t \in EvalThreads |->
                        IF t \notin Owners(task.call) THEN ev[t]
                        ELSE [ev[t] EXCEPT
                                 !.wg = @ - 1,
                                 !.rchan = IF ctxDone THEN @ ELSE Append(@, res)]]
           /\ evLog' = IF ctxDone
                       THEN [evLog EXCEPT !.skipped = @ \cup {<<task.call, task.index>>}]
                       ELSE [evLog EXCEPT !.evaluated =
                                @ \cup {<<task.call, task.lo, task.hi>>}]
    /\ wst' = [wst EXCEPT ![w] = [pc |-> "idle", task |-> NoTask]]
    /\ UNCHANGED <<workers, queue, closed, stopped, ppanic, stopPc, stopRet, sub,
                   nextTask, taskLog>>
    /\ movies' = IF ctxDone THEN movies
                 ELSE AppendMatches(FilterOf(wst[w].task.call), wst[w].task.lo,
                                    wst[w].task.hi)
    /\ UNCHANGED <<workerCount, batchSize, filters, ctxDone, bt, mainPc, mainRet>>
    /\ UNCHANGED <<cacheVars, otherVars>>

\* EvaluateBatch(ctx, filters, movies) called by the caller.
MainEvaluateBatch ==
    /\ ~ppanic
    /\ mainPc = "start"
    /\ evLog' = [evLog EXCEPT !.ctxAtCall = ctxDone]
    /\ IF DOMAIN filters = {} \/ nmovies = 0
       THEN /\ mainRet' = [val |-> <<>>, err |-> "nil"]
            /\ mainPc' = "done"
            /\ UNCHANGED bt
       ELSE /\ bt' = [NoBt EXCEPT !.pc = "submit", !.todo = DOMAIN filters]
            /\ mainPc' = "batching"
            /\ UNCHANGED mainRet
    /\ UNCHANGED <<workerCount, batchSize, movies, filters, ctxDone, ev>>
    /\ UNCHANGED <<cacheVars, poolVars, otherVars>>

\* EvaluateBatch, one turn of "for name, filter := range filters" (the map
\* is ranged in any order) up to the call of Submit: "wg.Add(1)".
BatchSubmitFilter(name) ==
    /\ ~ppanic
    /\ bt.pc = "submit"
    /\ sub[Main].pc = "none"
    /\ name \in bt.todo
    /\ sub' = [sub EXCEPT ![Main] = SubmitEntry(FilterTask(name))]
    /\ bt' = [bt EXCEPT !.wg = @ + 1, !.todo = @ \ {name}]
    /\ UNCHANGED <<workers, queue, closed, stopped, wst, ppanic, stopPc, stopRet,
                   nextTask, taskLog>>
    /\ UNCHANGED <<workerCount, batchSize, movies, filters, ctxDone, ev, mainPc,
                   mainRet, evLog>>
    /\ UNCHANGED <<cacheVars, otherVars>>

\* EvaluateBatch, Submit has returned: "if err != nil { wg.Done(); return
\* nil, err }", else the next filter, or the collection.
BatchSubmitReturn ==
    /\ ~ppanic
    /\ bt.pc = "submit"
    /\ sub[Main].pc \in {"ok", "stopped"}
    /\ sub' = [sub EXCEPT ![Main] = NoSub]
    /\ IF sub[Main].pc = "stopped"
       THEN /\ bt' = [bt EXCEPT !.wg = @ - 1, !.pc = "returned"]
            /\ mainRet' = [val |-> <<>>, err |-> "ErrPoolStopped"]
            /\ mainPc' = "done"
       ELSE /\ bt' = [bt EXCEPT !.pc = IF bt.todo = {} THEN "collect" ELSE "submit"]
            /\ UNCHANGED <<mainRet, mainPc>>
    /\ UNCHANGED <<workers, queue, closed, stopped, wst, ppanic, stopPc, stopRet,
                   nextTask, taskLog>>
    /\ UNCHANGED <<workerCount, batchSize, movies, filters, ctxDone, ev, evLog>>
    /\ UNCHANGED <<cacheVars, otherVars>>

\* The per-filter task sends its BatchResult and ends: "resultChan <-
\* BatchResult{...}", "defer wg.Done()".  resultChan holds len(filters)
\* results, so the send never waits.
BatchReport(name, ret) ==
    IF bt.pc \in {"submit", "collect"}
    THEN [bt EXCEPT !.wg = @ - 1,
                    !.rchan = Append(@, [name |-> name, val |-> ret.val,
                                         err |-> ret.err])]
    ELSE bt

\* worker(): "work()" for a per-filter task, up to its call of Evaluate: the
\* context check "case <-ctx.Done(): resultChan <- BatchResult{FilterName:
\* name, Error: ctx.Err()}; return", else "e.Evaluate(ctx, filter, movies)",
\* which evaluates a short list on the spot and else enters
\* evaluateConcurrent on this worker.
WorkerRunFilter(w) ==
    /\ ~ppanic
    /\ wst[w].pc = "run"
    /\ wst[w].task.kind = "filter"
    /\ ev[w].pc = "none"
    /\ LET name == wst[w].task.call IN
       IF ctxDone
       THEN /\ bt' = BatchReport(name, [val |-> <<>>, err |-> "ctxErr"])
            /\ evLog' = [evLog EXCEPT !.unevaluated = @ \cup {name}]
            /\ wst' = [wst EXCEPT ![w] = [pc |-> "idle", task |-> NoTask]]
            /\ UNCHANGED ev
       ELSE IF BelowBatchSize
       THEN /\ bt' = BatchReport(name, [val |-> EvaluateSequential(FilterOf(name)),
                                        err |-> "nil"])
            /\ wst' = [wst EXCEPT ![w] = [pc |-> "idle", task |-> NoTask]]
            /\ UNCHANGED <<ev, evLog>>
       ELSE /\ ev' = [ev EXCEPT ![w] = EvalStart(name)]
            /\ UNCHANGED <<bt, wst, evLog>>
    /\ UNCHANGED <<workers, queue, closed, stopped, ppanic, stopPc, stopRet, sub,
                   nextTask, taskLog>>
    /\ movies' = IF ~ctxDone /\ BelowBatchSize
                 THEN AppendMatches(FilterOf(wst[w].task.call), 0, nmovies)
                 ELSE movies
    /\ UNCHANGED <<workerCount, batchSize, filters, ctxDone, mainPc, mainRet>>
    /\ UNCHANGED <<cacheVars, otherVars>>

\* worker(): the per-filter task after its Evaluate call returned:
\* "resultChan <- BatchResult{FilterName: name, Matches: matches, Error: err}".
WorkerFilterReturn(w) ==
    /\ ~ppanic
    /\ wst[w].pc = "run"
    /\ wst[w].task.kind = "filter"
    /\ ev[w].pc = "returned"
    /\ bt' = BatchReport(wst[w].task.call, ev[w].ret)
    /\ evLog' = IF ev[w].ret.err = "nil" THEN evLog
                ELSE [evLog EXCEPT !.unevaluated = @ \cup {wst[w].task.call}]
    /\ ev' = [ev EXCEPT ![w] = NoEv]
    /\ wst' = [wst EXCEPT ![w] = [pc |-> "idle", task |-> NoTask]]
    /\ UNCHANGED <<workers, queue, closed, stopped, ppanic, stopPc, stopRet, sub,
                   nextTask, taskLog>>
    /\ UNCHANGED <<workerCount, batchSize, movies, filters, ctxDone, mainPc, mainRet>>
    /\ UNCHANGED <<cacheVars, otherVars>>

\* Mutant of BatchKeep: the test is inverted.
BatchKeep_Inverted(r) == r.err # "nil"

\* Mutant of BatchKeep: a result is kept whether or not it carries an error.
BatchKeep_All(r) == TRUE

\* EvaluateBatch, the collection: "if result.Error != nil { continue }".
BatchKeep(r) == r.err = "nil"

\* EvaluateBatch, "for result := range resultChan": one result is received
\* and, unless it carries an error, stored under its filter name.
BatchCollect ==
    /\ ~ppanic
    /\ bt.pc = "collect"
    /\ bt.rchan # <<>>
    /\ bt' = [bt EXCEPT
                 !.rchan = Tail(@),
                 !.results = IF BatchKeep(Head(bt.rchan))
                             THEN (Head(bt.rchan).name :> Head(bt.rchan).val) @@ @
                             ELSE @]
    /\ UNCHANGED <<workerCount, batchSize, movies, filters, ctxDone, ev, mainPc,
                   mainRet, evLog>>
    /\ UNCHANGED <<cacheVars, poolVars, otherVars>>

\* EvaluateBatch: wg.Wait() has returned and resultChan is closed and
\* drained: "return results, nil".
BatchFinish ==
    /\ ~ppanic
    /\ bt.pc = "collect"
    /\ bt.rchan = <<>>
    /\ bt.wg = 0
    /\ bt' = [bt EXCEPT !.pc = "returned"]
    /\ mainRet' = [val |-> bt.results, err |-> "nil"]
    /\ mainPc' = "done"
    /\ UNCHANGED <<workerCount, batchSize, movies, filters, ctxDone, ev, evLog>>
    /\ UNCHANGED <<cacheVars, poolVars, otherVars>>

-----------------------------------------------------------------------------
(***************************************************************************)
(* exprCompiler (filter.go).  An expression string is a sequence of        *)
(* characters of three kinds: a blank, the operator "!" and "t", which     *)
(* stands for a boolean term over the record, true on the records of even  *)
(* number.  A cache key k of the lruCache stands for the string intern[k], *)
(* keys being numbered as the strings first reach the cache.               *)
(***************************************************************************)
Blank == " "
Chars == {Blank, "!", "t"}
Exprs == UNION {[1..n -> Chars] : n \in 0..MaxExprLen}

RECURSIVE TrimLeft(_)
TrimLeft(s) == IF s # <<>> /\ Head(s) = Blank THEN TrimLeft(Tail(s)) ELSE s

RECURSIVE TrimRight(_)
TrimRight(s) ==
    IF s # <<>> /\ s[Len(s)] = Blank THEN TrimRight(SubSeq(s, 1, Len(s) - 1))
    ELSE s

\* Mutant of TrimSpace: the string is left as it is.
TrimSpace_None(s) == s

\* strings.TrimSpace(expression)
TrimSpace(s) == TrimRight(TrimLeft(s))

\* The string without its blanks: its tokens.
NoBlanks(s) == SelectSeq(s, LAMBDA c : c # Blank)

\* expr.Compile(expression, ..., expr.AsBool()) succeeds: the tokens are a
\* literal preceded by any number of "!" operators.
ExprCompiles(s) ==
    LET u == NoBlanks(s) IN
    /\ u # <<>>
    /\ u[Len(u)] = "t"
    /\ \A i \in 1..(Len(u) - 1) : u[i] = "!"

\* An expression that Compile accepts: not blank, and accepted by expr.
Compilable(e) == TrimSpace(e) # <<>> /\ ExprCompiles(e)

\* The compiled program: the outcome of running it on each record, the value
\* of the term negated once for each "!".
ExprProgram(s) ==
    [m \in 1..MaxMovies |->
        IF (m % 2 = 0) = ((Len(NoBlanks(s)) - 1) % 2 = 0) THEN "true" ELSE "false"]

\* A compiled filter, &exprFilter{expression, program}; id tells the objects
\* apart.
NewFilter(x) == [expression |-> x, id |-> ncompiled + 1]

\* Mutant of CacheKey: the key is the string with its blanks removed.
CacheKey_Squeezed(x) == NoBlanks(x)

\* The string Compile looks up and stores under: the expression it holds
\* after "expression = strings.TrimSpace(expression)".
CacheKey(x) == x

\* The number of the cache key a string has, 0 when it has none yet.
KeyOf(x) ==
    IF \E k \in 1..Len(intern) : intern[k] = x
    THEN CHOOSE k \in 1..Len(intern) : intern[k] = x
    ELSE 0

\* Mutant of CacheHit: the cache is never consulted.
CacheHit_Never(k) == FALSE

\* "if c.cache != nil { if cached, ok := c.cache.Get(expression); ok {"
CacheHit(k) == caching /\ k # 0 /\ items[k] # Nil

\* What Compile(e) does in the present state: the empty-expression error, a
\* cache hit, a failed compilation, or a new filter.  errExpr is the
\* Expression field of the CompilationError returned.
CompileOutcome(e) ==
    LET x == TrimSpace(e)
        k == KeyOf(CacheKey(x))
    IN  IF x = <<>>
        THEN [kind |-> "empty", key |-> 0, filter |-> NoFilter,
              err |-> "empty expression", errExpr |-> x]
        ELSE IF CacheHit(k)
        THEN [kind |-> "hit", key |-> k, filter |-> cval[k], err |-> "nil",
              errExpr |-> <<>>]
        ELSE IF ~ExprCompiles(x)
        THEN [kind |-> "failed", key |-> 0, filter |-> NoFilter,
              err |-> "failed to compile expression", errExpr |-> x]
        ELSE [kind |-> "compiled",
              key |-> IF k # 0 THEN k ELSE Len(intern) + 1,
              filter |-> NewFilter(x), err |-> "nil", errExpr |-> <<>>]

\* exprCompiler.Size()
CompilerSize(l) == IF caching THEN ListLen(l) ELSE 0

\* NewExprCompiler(WithCache(size)): no filter compiled yet.
\* No ConvertLegacyFilter call is made.
NoConv == [input |-> <<>>, filter |-> <<>>, pending |-> {}]

CompNew(es, cached) ==
    /\ exprs = es
    /\ caching = cached
    /\ intern = <<>>
    /\ ncompiled = 0
    /\ compLog = <<>>
    /\ pcf = [called |-> FALSE, expr |-> <<>>, err |-> "none", program |-> <<>>]
    /\ conv = NoConv

\* exprCompiler.Compile(e), the call on the compiler and its cache, made
\* with no other call in between.
CompileCall(e) ==
    LET o == CompileOutcome(e) IN
    /\ Len(compLog) < MaxCompiles
    /\ CASE o.kind = "hit" ->
              /\ Get(1, o.key)
              /\ UNCHANGED <<intern, ncompiled>>
         [] o.kind = "compiled" /\ caching ->
              /\ o.key <= MaxKeys
              /\ Put(1, o.key, o.filter)
              /\ intern' = IF o.key > Len(intern)
                           THEN Append(intern, CacheKey(TrimSpace(e))) ELSE intern
              /\ ncompiled' = ncompiled + 1
         [] o.kind = "compiled" /\ ~caching ->
              /\ ncompiled' = ncompiled + 1
              /\ UNCHANGED <<cacheVars, engineVars, intern>>
         [] o.kind = "failed" ->
              /\ ncompiled' = ncompiled + 1
              /\ UNCHANGED <<cacheVars, engineVars, intern>>
         [] o.kind = "empty" ->
              UNCHANGED <<cacheVars, engineVars, intern, ncompiled>>
    /\ compLog' = Append(compLog,
                         [expr |-> e, kind |-> o.kind, filter |-> o.filter,
                          err |-> o.err, errExpr |-> o.errExpr,
                          size |-> CompilerSize(lst'),
                          compiled |-> ncompiled',
                          afterClear |-> lastOp.op = "clear"])
    /\ UNCHANGED <<exprs, caching>>

\* A caller compiles the i-th expression of the run.
Compile(i) ==
    /\ CompileCall(exprs[i])
    /\ UNCHANGED <<pcf, conv, stopLog, mgrVars>>

\* exprCompiler.Clear(): "if c.cache != nil { c.cache.Clear() }".
CompilerClear ==
    /\ IF caching THEN Clear(1) ELSE UNCHANGED <<cacheVars, engineVars>>
    /\ UNCHANGED <<compVars, stopLog, mgrVars>>

\* ParseAndCreateFilter(expression): a blank expression gives the predicate
\* that is true of every record; else the expression (no legacy token among
\* these characters) goes to CreateExprFilter, which returns the compiled
\* predicate or the compilation error.
ParseAndCreateFilter(i) ==
    /\ pcf' = IF TrimSpace(exprs[i]) = <<>>
              THEN [called |-> TRUE, expr |-> exprs[i], err |-> "nil",
                    program |-> [m \in 1..MaxMovies |-> "true"]]
              ELSE IF ExprCompiles(exprs[i])
              THEN [called |-> TRUE, expr |-> exprs[i], err |-> "nil",
                    program |-> ExprProgram(exprs[i])]
              ELSE [called |-> TRUE, expr |-> exprs[i], err |-> "compile",
                    program |-> <<>>]
    /\ UNCHANGED <<exprs, caching, intern, ncompiled, compLog, conv>>
    /\ UNCHANGED <<cacheVars, engineVars, stopLog, mgrVars>>

-----------------------------------------------------------------------------
(***************************************************************************)
(* ConvertLegacyFilter (compat.go).  A filter string is a sequence of      *)
(* tokens: the keys of the legacy syntax, ":", "!", the double quote, the  *)
(* comparison and digit characters, the words true and false, the logical  *)
(* operators with their blanks, any other text, and the pieces of the      *)
(* replacement texts.  No token but Quote holds a double quote.            *)
(***************************************************************************)
Quote == "\""

\* The character classes of the patterns: [^"], [><=] and \d.
InClass(tok, class) ==
    CASE class = "value" -> tok # Quote
      [] class = "op"    -> tok \in {">", "<", "="}
      [] class = "digit" -> tok \in {"0", "1", "2", "3", "4", "5", "6", "7", "8", "9"}

\* The patterns of the map "patterns", in the order of the source text: the
\* key, the shape of what follows it, and the text its replacer puts before
\* the value.
Patterns ==
    << [key |-> "tag", shape |-> "quoted!", out |-> "hasTag("],
       [key |-> "watched_by", shape |-> "quoted!", out |-> "watchedBy("],
       [key |-> "watch_count_by", shape |-> "quoted-count", out |-> "watchCountBy("],
       [key |-> "watched", shape |-> "bool", out |-> "Movie.Watched == "],
       [key |-> "watch_count", shape |-> "count", out |-> "Movie.WatchCount "],
       [key |-> "added_before", shape |-> "quoted", out |-> "Movie.Added < "],
       [key |-> "added_after", shape |-> "quoted", out |-> "Movie.Added > "],
       [key |-> "imported_before", shape |-> "quoted", out |-> "Movie.FileImported < "],
       [key |-> "imported_after", shape |-> "quoted", out |-> "Movie.FileImported > "] >>

\* The token at a position, "" past the end.
At(s, i) == IF i \in DOMAIN s THEN s[i] ELSE ""

\* The last position of the longest run of the class that starts at i
\* (i - 1 when there is none): the greedy "+".
RECURSIVE RunEnd(_, _, _)
RunEnd(s, i, class) ==
    IF i \in DOMAIN s /\ InClass(s[i], class) THEN RunEnd(s, i + 1, class) ELSE i - 1

NoMatch == [end |-> 0, out |-> <<>>]

\* The match of a pattern that starts at position i, and what the replacer
\* returns for it (fmt.Sprintf on the submatches); end is 0 when the pattern
\* does not match there.
Match(r, s, i) ==
    LET P     == Patterns[r]
        neg   == P.shape = "quoted!" /\ At(s, i + 1) = "!"
        c     == IF neg THEN i + 2 ELSE i + 1
        ve    == RunEnd(s, c + 2, "value")
        value == << Quote >> \o SubSeq(s, c + 2, ve) \o << Quote >>
        quoted == At(s, c + 1) = Quote /\ ve >= c + 2 /\ At(s, ve + 1) = Quote
        o1    == IF P.shape = "count" THEN c + 1 ELSE ve + 2
        oe    == RunEnd(s, o1, "op")
        de    == RunEnd(s, oe + 1, "digit")
        count == oe >= o1 /\ de >= oe + 1
        cmp   == SubSeq(s, o1, oe) \o << " " >> \o SubSeq(s, oe + 1, de)
    IN  IF At(s, i) # P.key \/ At(s, c) # ":" THEN NoMatch
        ELSE CASE P.shape = "quoted!" ->
                    IF ~quoted THEN NoMatch
                    ELSE [end |-> ve + 1,
                          out |-> (IF neg THEN << "not " >> ELSE <<>>)
                                      \o << P.out >> \o value \o << ")" >>]
               [] P.shape = "quoted" ->
                    IF ~quoted THEN NoMatch
                    ELSE [end |-> ve + 1, out |-> << P.out >> \o value]
               [] P.shape = "quoted-count" ->
                    IF ~(quoted /\ count) THEN NoMatch
                    ELSE [end |-> de,
                          out |-> << P.out >> \o value \o << ") " >> \o cmp]
               [] P.shape = "bool" ->
                    IF At(s, c + 1) \notin {"true", "false"} THEN NoMatch
                    ELSE [end |-> c + 1, out |-> << P.out, s[c + 1] >>]
               [] P.shape = "count" ->
                    IF ~count THEN NoMatch
                    ELSE [end |-> de, out |-> << P.out >> \o cmp]

\* pattern.ReplaceAllStringFunc(filter, ...): the matches are taken from the
\* left, each search going on after the match before it.
RECURSIVE ReplaceFrom(_, _, _)
ReplaceFrom(r, s, i) ==
    IF i > Len(s) THEN <<>>
    ELSE LET m == Match(r, s, i)
         IN  IF m.end = 0 THEN << s[i] >> \o ReplaceFrom(r, s, i + 1)
             ELSE m.out \o ReplaceFrom(r, s, m.end + 1)

ReplaceAllStringFunc(r, s) == ReplaceFrom(r, s, 1)

\* strings.ReplaceAll(oldFilter, " AND ", " and "), then " OR " and " NOT ".
ReplaceOperators(s) ==
    [i \in DOMAIN s |->
        CASE s[i] = " AND " -> " and "
          [] s[i] = " OR "  -> " or "
          [] s[i] = " NOT " -> " not "
          [] OTHER -> s[i]]

\* ConvertLegacyFilter(oldFilter) up to the loop over the patterns: an empty
\* or blank filter returns "" at once.
ConvStart(s) ==
    IF TrimSpace(s) = <<>>
    THEN [input |-> s, filter |-> <<>>, pending |-> {}]
    ELSE [input |-> s, filter |-> ReplaceOperators(s), pending |-> DOMAIN Patterns]

\* One turn of "for pattern, replacer := range patterns": the map is ranged
\* in any order.
ApplyPattern(r) ==
    /\ r \in conv.pending
    /\ conv' = [conv EXCEPT !.filter = ReplaceAllStringFunc(r, @),
                            !.pending = @ \ {r}]
    /\ UNCHANGED <<exprs, caching, intern, ncompiled, compLog, pcf>>
    /\ UNCHANGED <<cacheVars, engineVars, stopLog, mgrVars>>

\* IsLegacyFilter(filter): the filter holds one of the legacy patterns,
\* a key with ":" right after it.
IsLegacyFilter(s) ==
    \E i \in DOMAIN s :
        /\ \E r \in DOMAIN Patterns : s[i] = Patterns[r].key
        /\ At(s, i + 1) = ":"

\* strings.ToLower on a token.
ToLower(tok) ==
    CASE tok = "Action" -> "action"
      [] tok = " AND " -> " and "
      [] tok = " OR " -> " or "
      [] tok = " NOT " -> " not "
      [] tok = "Movie.Watched == " -> "movie.watched == "
      [] tok = "Movie.WatchCount " -> "movie.watchcount "
      [] OTHER -> tok

\* The function createHasTagFunc(movie.TagNames) returns, called with tag:
\* some tag of the record equals it, both in lower case.
HasTag(tagNames, tag) ==
    \E t \in tagNames :
        [i \in DOMAIN t |-> ToLower(t[i])] = [i \in DOMAIN tag |-> ToLower(tag[i])]

\* CreateExprFilter(expression) for an expression of the form hasTag("..."),
\* run on the records of the list; any other expression of these tokens is
\* left uncompiled here.
CreateExprFilter(e, records) ==
    IF /\ Len(e) >= 5
       /\ e[1] = "hasTag(" /\ e[2] = Quote
       /\ e[Len(e) - 1] = Quote /\ e[Len(e)] = ")"
       /\ \A i \in 3..(Len(e) - 2) : e[i] # Quote
    THEN [called |-> TRUE, expr |-> e, err |-> "nil",
          program |-> [m \in DOMAIN records |->
                          IF HasTag(records[m], SubSeq(e, 3, Len(e) - 2))
                          THEN "true" ELSE "false"]]
    ELSE [called |-> TRUE, expr |-> e, err |-> "compile", program |-> <<>>]

\* ParseAndCreateFilter(expression) on a legacy expression, up to the loop of
\* ConvertLegacyFilter: "if IsLegacyFilter(expression) { convertedExpr, err
\* := ConvertLegacyFilter(expression)".
ParseLegacy(i) ==
    /\ ~pcf.called
    /\ conv = NoConv
    /\ TrimSpace(exprs[i]) # <<>>
    /\ IsLegacyFilter(exprs[i])
    /\ conv' = ConvStart(exprs[i])
    /\ UNCHANGED <<exprs, caching, intern, ncompiled, compLog, pcf>>
    /\ UNCHANGED <<cacheVars, engineVars, stopLog, mgrVars>>

\* ParseAndCreateFilter after the conversion: "expression = convertedExpr;
\* return CreateExprFilter(expression)".
ParseConverted ==
    /\ ~pcf.called
    /\ conv # NoConv
    /\ conv.pending = {}
    /\ pcf' = CreateExprFilter(conv.filter, movies)
    /\ UNCHANGED <<exprs, caching, intern, ncompiled, compLog, conv>>
    /\ UNCHANGED <<cacheVars, engineVars, stopLog, mgrVars>>

-----------------------------------------------------------------------------
(***************************************************************************)
(* Manager (manager.go): the registry of named filters.  A batch gives     *)
(* each of its names one of the expressions of the run.                    *)
(***************************************************************************)
Names == 1..MaxNames
Batches == UNION {[S -> DOMAIN exprs] : S \in SUBSET Names}

NoReg == [pc |-> "idle", batch |-> <<>>, todo |-> {}, compiled |-> <<>>]

\* A thread that is in no call on the Manager.
NoCall == [op |-> "none", pc |-> "idle", arg |-> <<>>, compiled |-> <<>>,
           todo |-> {}, rest |-> <<>>, acc |-> <<>>, v0 |-> 0]

\* NewManager(): an empty registry.
ManagerNew ==
    /\ registry = <<>>
    /\ reg = NoReg
    /\ mu = [writer |-> 0, readers |-> {}]
    /\ mcall = [t \in Threads |-> NoCall]
    /\ mhist = [vers |-> << <<>> >>, log |-> <<>>]
    /\ regLog = [op |-> "new", before |-> <<>>, batch |-> <<>>, ret |-> "none"]

\* "m.filters[name] = filter"
Store(name, filter, fs) == (name :> filter) @@ fs

\* Mutant of Delete: the registry is emptied.
Delete_All(name, fs) == <<>>

\* "delete(m.filters, name)"
Delete(name, fs) == [n \in (DOMAIN fs) \ {name} |-> fs[n]]

\* Manager.RegisterFilter(name, expression): the filter is compiled and, if
\* that succeeded, stored under the name.
RegisterFilter(name, i) ==
    /\ reg.pc = "idle"
    /\ CompileCall(exprs[i])
    /\ registry' = IF CompileOutcome(exprs[i]).err = "nil"
                   THEN Store(name, CompileOutcome(exprs[i]).filter, registry)
                   ELSE registry
    /\ regLog' = [op |-> "RegisterFilter", before |-> registry, batch |-> <<>>,
                  ret |-> IF CompileOutcome(exprs[i]).err = "nil" THEN "nil"
                          ELSE "error"]
    /\ UNCHANGED <<reg, pcf, conv, stopLog, lockVars>>

\* Manager.UnregisterFilter(name)
UnregisterFilter(name) ==
    /\ reg.pc = "idle"
    /\ name \in DOMAIN registry
    /\ registry' = Delete(name, registry)
    /\ regLog' = [op |-> "UnregisterFilter", before |-> registry, batch |-> <<>>,
                  ret |-> "none"]
    /\ UNCHANGED <<reg, compVars, stopLog, lockVars>>
    /\ UNCHANGED <<cacheVars, engineVars>>

\* Manager.RegisterFilters(filters) is called: "compiled := make(...)".
RegisterFilters(b) ==
    /\ reg.pc = "idle"
    /\ Len(compLog) + Cardinality(DOMAIN b) <= MaxCompiles
    /\ reg' = [pc |-> "compiling", batch |-> b, todo |-> DOMAIN b,
               compiled |-> <<>>]
    /\ regLog' = [op |-> "RegisterFilters", before |-> registry, batch |-> b,
                  ret |-> "running"]
    /\ UNCHANGED <<registry, compVars, stopLog, lockVars>>
    /\ UNCHANGED <<cacheVars, engineVars>>

\* Mutant of OnCompileError: what was compiled so far is registered.
OnCompileError_Partial(fs, compiled) == compiled @@ fs

\* RegisterFilters, "if err != nil { return fmt.Errorf(...) }": the registry
\* the failed call leaves.
OnCompileError(fs, compiled) == fs

\* RegisterFilters, one turn of "for name, expr := range filters" (the map is
\* ranged in any order): the expression is compiled; an error ends the call.
RegisterCompile(name) ==
    /\ reg.pc = "compiling"
    /\ name \in reg.todo
    /\ CompileCall(exprs[reg.batch[name]])
    /\ LET o == CompileOutcome(exprs[reg.batch[name]]) IN
       IF o.err # "nil"
       THEN /\ reg' = NoReg
            /\ registry' = OnCompileError(registry, reg.compiled)
            /\ regLog' = [regLog EXCEPT !.ret = "error"]
       ELSE /\ reg' = [reg EXCEPT !.todo = @ \ {name},
                                  !.compiled = Store(name, o.filter, @)]
            /\ UNCHANGED <<registry, regLog>>
    /\ UNCHANGED <<pcf, conv, stopLog, lockVars>>

\* RegisterFilters, every expression compiled: "maps.Copy(m.filters,
\* compiled)" under the lock, "return nil".
RegisterCommit ==
    /\ reg.pc = "compiling"
    /\ reg.todo = {}
    /\ registry' = reg.compiled @@ registry
    /\ reg' = NoReg
    /\ regLog' = [regLog EXCEPT !.ret = "nil"]
    /\ UNCHANGED <<compVars, stopLog, lockVars>>
    /\ UNCHANGED <<cacheVars, engineVars>>

-----------------------------------------------------------------------------
(***************************************************************************)
(* Manager (manager.go) under concurrent calls: the registry and the       *)
(* RWMutex that guards it.  A call holds the lock over the statements      *)
(* between its Lock and Unlock, which take one step per map entry here.    *)
(* The compiler is taken by its contract (the Compiler interface): the     *)
(* filter of the expression, or an error.                                  *)
(***************************************************************************)

\* The name lists EvaluateSelected is called with.
NameLists ==
    {<<>>} \cup {<<n>> : n \in Names}
           \cup {<<n, m>> : n \in Names, m \in Names}

\* The calls on the Manager; arg is the name -> expression map of a
\* registration, the name list of the other calls.
Calls ==
    {[op |-> "RegisterFilter", arg |-> (n :> i)] : n \in Names, i \in DOMAIN exprs}
    \cup {[op |-> "RegisterFilters", arg |-> b] : b \in Batches}
    \cup {[op |-> o, arg |-> <<n>>] :
             o \in {"UnregisterFilter", "GetFilter", "EvaluateFilter"}, n \in Names}
    \cup {[op |-> o, arg |-> <<>>] : o \in {"ListFilters", "EvaluateAll"}}
    \cup {[op |-> "EvaluateSelected", arg |-> l] : l \in NameLists}

\* The calls that take mu.Lock(); the others take mu.RLock().
Writers == {"RegisterFilter", "RegisterFilters", "UnregisterFilter"}

\* "filter, err := m.compiler.Compile(expression)" with a nil error.
Compiled(e) == [expression |-> TrimSpace(e), id |-> 0]

\* The record of a call that returned.
Returned(t, ret, out, submits, v1) ==
    [t |-> t, op |-> mcall[t].op, arg |-> mcall[t].arg, ret |-> ret,
     out |-> out, submitted |-> submits, v0 |-> mcall[t].v0, v1 |-> v1]

\* A thread calls the Manager.  RegisterFilter and RegisterFilters compile
\* before they take the lock and return the error of an expression that
\* does not compile.
Call(t, c) ==
    /\ mcall[t].pc = "idle"
    /\ Len(mhist.log) + Cardinality({u \in Threads : mcall[u].pc # "idle"}) < MaxCalls
    /\ IF /\ c.op \in {"RegisterFilter", "RegisterFilters"}
          /\ \E n \in DOMAIN c.arg : ~Compilable(exprs[c.arg[n]])
       THEN /\ mhist' = [mhist EXCEPT !.log = Append(@,
                            [t |-> t, op |-> c.op, arg |-> c.arg, ret |-> "error",
                             out |-> <<>>, submitted |-> FALSE,
                             v0 |-> Len(mhist.vers), v1 |-> Len(mhist.vers)])]
            /\ UNCHANGED mcall
       ELSE /\ mcall' = [mcall EXCEPT ![t] =
                            [op |-> c.op, pc |-> "lock", arg |-> c.arg,
                             compiled |-> IF c.op \in {"RegisterFilter", "RegisterFilters"}
                                          THEN [n \in DOMAIN c.arg |->
                                                   Compiled(exprs[c.arg[n]])]
                                          ELSE <<>>,
                             todo |-> {}, rest |-> <<>>, acc |-> <<>>,
                             v0 |-> Len(mhist.vers)]]
            /\ UNCHANGED mhist
    /\ UNCHANGED <<registry, mu, reg, regLog, stopLog, compVars>>
    /\ UNCHANGED <<cacheVars, engineVars>>

\* Mutant of CanLock: the lock is given while readers hold it.
CanLock_Shared == mu.writer = 0

\* sync.RWMutex: Lock() returns when no writer and no reader holds the lock.
CanLock == mu.writer = 0 /\ mu.readers = {}

\* sync.RWMutex: RLock() returns when no writer holds the lock.
CanRLock == mu.writer = 0

\* "m.mu.Lock()"
Lock(t) ==
    /\ mcall[t].pc = "lock"
    /\ mcall[t].op \in Writers
    /\ CanLock
    /\ mu' = [mu EXCEPT !.writer = t]
    /\ mcall' = [mcall EXCEPT ![t].pc = "locked",
                              ![t].todo = IF mcall[t].op = "UnregisterFilter"
                                          THEN {mcall[t].arg[1]}
                                          ELSE DOMAIN mcall[t].compiled]
    /\ UNCHANGED <<registry, mhist, reg, regLog, stopLog, compVars>>
    /\ UNCHANGED <<cacheVars, engineVars>>

\* "m.mu.RLock()"
RLock(t) ==
    /\ mcall[t].pc = "lock"
    /\ mcall[t].op \notin Writers
    /\ CanRLock
    /\ mu' = [mu EXCEPT !.readers = @ \cup {t}]
    /\ mcall' = [mcall EXCEPT ![t].pc = "locked", ![t].rest = mcall[t].arg]
    /\ UNCHANGED <<registry, mhist, reg, regLog, stopLog, compVars>>
    /\ UNCHANGED <<cacheVars, engineVars>>

\* The write of a call that holds the lock: "m.filters[name] = filter", one
\* entry of "maps.Copy(m.filters, compiled)", or "delete(m.filters, name)".
WriteStep(t) ==
    /\ mcall[t].pc = "locked"
    /\ mcall[t].op \in Writers
    /\ \E n \in mcall[t].todo :
          /\ registry' = IF mcall[t].op = "UnregisterFilter"
                         THEN Delete(n, registry)
                         ELSE Store(n, mcall[t].compiled[n], registry)
          /\ mcall' = [mcall EXCEPT ![t].todo = @ \ {n}]
    /\ UNCHANGED <<mu, mhist, reg, regLog, stopLog, compVars>>
    /\ UNCHANGED <<cacheVars, engineVars>>

\* "m.mu.Unlock()" and the return of the writing call.
Unlock(t) ==
    /\ mcall[t].pc = "locked"
    /\ mcall[t].op \in Writers
    /\ mcall[t].todo = {}
    /\ mu' = [mu EXCEPT !.writer = 0]
    /\ mhist' = [vers |-> Append(mhist.vers, registry),
                 log |-> Append(mhist.log,
                            Returned(t, "nil", <<>>, FALSE, Len(mhist.vers) + 1))]
    /\ mcall' = [mcall EXCEPT ![t] = NoCall]
    /\ UNCHANGED <<registry, reg, regLog, stopLog, compVars>>
    /\ UNCHANGED <<cacheVars, engineVars>>

\* The read of a call that holds the read lock: the lookup of GetFilter
\* (EvaluateFilter calls GetFilter), one turn of "for name := range
\* m.filters" of ListFilters, one entry of "maps.Copy(filters, m.filters)"
\* of EvaluateAll, or one turn of "for _, name := range filterNames" of
\* EvaluateSelected that finds the name.
ReadStep(t) ==
    /\ mcall[t].pc = "locked"
    /\ mcall[t].op \notin Writers
    /\ CASE mcall[t].op \in {"GetFilter", "EvaluateFilter", "EvaluateSelected"} ->
              /\ mcall[t].rest # <<>>
              /\ LET n == Head(mcall[t].rest) IN
                 /\ mcall[t].op = "EvaluateSelected" => n \in DOMAIN registry
                 /\ mcall' = [mcall EXCEPT
                        ![t].rest = Tail(@),
                        ![t].acc = IF n \in DOMAIN registry
                                   THEN Store(n, registry[n], @) ELSE @]
         [] mcall[t].op = "ListFilters" ->
              \E n \in (DOMAIN registry) \ {mcall[t].acc[i] : i \in DOMAIN mcall[t].acc} :
                  mcall' = [mcall EXCEPT ![t].acc = Append(@, n)]
         [] mcall[t].op = "EvaluateAll" ->
              \E n \in (DOMAIN registry) \ (DOMAIN mcall[t].acc) :
                  mcall' = [mcall EXCEPT ![t].acc = Store(n, registry[n], @)]
    /\ UNCHANGED <<registry, mu, mhist, reg, regLog, stopLog, compVars>>
    /\ UNCHANGED <<cacheVars, engineVars>>

\* Mutant of NotFoundReaders: the early return keeps the read lock.
NotFoundReaders_Held(t) == mu.readers

\* EvaluateSelected, the name is absent: the readers of the lock after
\* "m.mu.RUnlock()".
NotFoundReaders(t) == mu.readers \ {t}

\* EvaluateSelected, the name is absent: "m.mu.RUnlock(); return nil,
\* fmt.Errorf("filter '%s' not found", name)".
SelectNotFound(t) ==
    /\ mcall[t].pc = "locked"
    /\ mcall[t].op = "EvaluateSelected"
    /\ mcall[t].rest # <<>>
    /\ Head(mcall[t].rest) \notin DOMAIN registry
    /\ mu' = [mu EXCEPT !.readers = NotFoundReaders(t)]
    /\ mhist' = [mhist EXCEPT !.log = Append(@,
                     Returned(t, "not found", <<>>, FALSE, Len(mhist.vers)))]
    /\ mcall' = [mcall EXCEPT ![t] = NoCall]
    /\ UNCHANGED <<registry, reg, regLog, stopLog, compVars>>
    /\ UNCHANGED <<cacheVars, engineVars>>

\* The reading call has read all it reads.
ReadDone(t) ==
    CASE mcall[t].op \in {"GetFilter", "EvaluateFilter", "EvaluateSelected"} ->
             mcall[t].rest = <<>>
      [] mcall[t].op = "ListFilters" ->
             (DOMAIN registry) \subseteq {mcall[t].acc[i] : i \in DOMAIN mcall[t].acc}
      [] mcall[t].op = "EvaluateAll" ->
             (DOMAIN registry) \subseteq (DOMAIN mcall[t].acc)
      [] OTHER -> FALSE

\* "m.mu.RUnlock()" and the return of the reading call.  GetFilter and
\* ListFilters return what they read; EvaluateFilter returns "not found" or
\* passes the filter to evaluator.Evaluate; EvaluateAll and EvaluateSelected
\* pass their copy to evaluator.EvaluateBatch.
RUnlock(t) ==
    /\ mcall[t].pc = "locked"
    /\ mcall[t].op \notin Writers
    /\ ReadDone(t)
    /\ mu' = [mu EXCEPT !.readers = @ \ {t}]
    /\ LET missed == mcall[t].op \in {"GetFilter", "EvaluateFilter"}
                        /\ mcall[t].acc = <<>>
       IN  mhist' = [mhist EXCEPT !.log = Append(@,
               Returned(t, IF missed THEN "not found" ELSE "nil", mcall[t].acc,
                        mcall[t].op \in {"EvaluateAll", "EvaluateSelected"}
                            \/ (mcall[t].op = "EvaluateFilter" /\ ~missed),
                        Len(mhist.vers)))]
    /\ mcall' = [mcall EXCEPT ![t] = NoCall]
    /\ UNCHANGED <<registry, reg, regLog, stopLog, compVars>>
    /\ UNCHANGED <<cacheVars, engineVars>>

\* The evaluating calls on the Manager.
EvalCalls ==
    {c \in Calls : c.op \in {"EvaluateFilter", "EvaluateAll", "EvaluateSelected"}}

\* The first call that read the registry and goes on to the evaluator.
Passed ==
    LET S == {i \in DOMAIN mhist.log : mhist.log[i].submitted}
    IN  mhist.log[CHOOSE i \in S : \A j \in S : i <= j]

\* Mutant of PassedFilters: EvaluateAll hands the registry itself to the
\* evaluator, not the copy it made under the lock.
PassedFilters_Live ==
    IF Passed.op = "EvaluateFilter"
    THEN <<ExprProgram(Passed.out[Passed.arg[1]].expression)>>
    ELSE [name \in DOMAIN registry |-> ExprProgram(registry[name].expression)]

\* The filters such a call hands to the evaluator: the one filter it looked
\* up (EvaluateFilter), or its name -> filter map (EvaluateAll,
\* EvaluateSelected); a filter is run as its program.
PassedFilters ==
    IF Passed.op = "EvaluateFilter"
    THEN <<ExprProgram(Passed.out[Passed.arg[1]].expression)>>
    ELSE [name \in DOMAIN Passed.out |-> ExprProgram(Passed.out[name].expression)]

\* "return m.evaluator.Evaluate(ctx, filter, movies)" of EvaluateFilter and
\* "return m.evaluator.EvaluateBatch(ctx, filters, movies)" of EvaluateAll
\* and EvaluateSelected: the arguments of the evaluator's call.
ManagerEvaluate ==
    /\ mainPc = "idle"
    /\ \E i \in DOMAIN mhist.log : mhist.log[i].submitted
    /\ filters' = PassedFilters
    /\ mainPc' = "start"
    /\ UNCHANGED <<workerCount, batchSize, movies, ctxDone, ev, bt, mainRet, evLog>>
    /\ UNCHANGED <<cacheVars, poolVars, otherVars>>

\* A thread calls the Manager while no other call is made.
ManagerCall(t, c) ==
    /\ mhist.log = <<>>
    /\ \A u \in Threads : mcall[u].pc = "idle"
    /\ Call(t, c)

\* The evaluator's call of EvaluateFilter.
ManagerEvaluateFilter ==
    mainPc = "start" /\ Passed.op = "EvaluateFilter" /\ MainEvaluate

\* The evaluator's call of EvaluateAll and EvaluateSelected.
ManagerEvaluateBatch ==
    mainPc = "start" /\ Passed.op # "EvaluateFilter" /\ MainEvaluateBatch

-----------------------------------------------------------------------------
(***************************************************************************)
(* The runs of the pool and of the evaluator.                              *)
(***************************************************************************)

\* The compiler and the registry of a run that uses none.
CompUnused == CompNew(<<>>, FALSE) /\ ManagerNew

\* The cache of a run that uses none.
CacheUnused == CacheNew(FALSE) /\ csize = 1 /\ CompUnused

\* The evaluator of a run that makes no call.
EvalUnused == EvalNew(1, 1, 0, <<>>)

\* The pool and the evaluator of a run that uses none.
PoolUnused == PoolNew(1) /\ EvalUnused

PoolInit ==
    /\ CacheUnused
    /\ EvalUnused
    /\ \E w \in 1..MaxWorkers : PoolNew(w)

\* Callers submit plain work while another thread calls Stop.
PoolNext ==
    \/ \E c \in Callers : CallerSubmit(c)
    \/ \E c \in Callers : CallerReturn(c)
    \/ \E c \in Callers : SubmitSend(c)
    \/ \E c \in Callers : SubmitBlockedSend(c)
    \/ \E c \in Callers : SubmitTimeout(c)
    \/ \E c \in Callers : SubmitRetry(c)
    \/ \E w \in WorkerIds : WorkerReceive(w)
    \/ \E w \in WorkerIds : WorkerRunWork(w)
    \/ \E w \in WorkerIds : WorkerExit(w)
    \/ StopStore
    \/ StopClose
    \/ StopDone
    \/ StopDeadline
    \/ StopAgain

PoolSpec == PoolInit /\ [][PoolNext]_vars

\* One Evaluate call on a running pool, the caller's context being cancelled
\* at any moment, before the call or during it.  The chunks of one call
\* always fit into the work queue, so Submit never takes its full-queue path
\* here.
EvalInit ==
    /\ CacheUnused
    /\ \E w \in 1..MaxWorkers, b \in 1..MaxBatchSize, n \in 0..MaxMovies :
          \E F \in [1..n -> RunOutcomes] :
             /\ PoolNew(w)
             /\ EvalNew(w, b, n, [k \in {1} |-> F])

EvalNext ==
    \/ MainEvaluate
    \/ EvalSubmitChunk(Main)
    \/ SubmitSend(Main)
    \/ EvalSubmitReturn(Main)
    \/ EvalCollect(Main)
    \/ EvalFinish(Main)
    \/ MainEvaluateReturn
    \/ \E w \in WorkerIds : WorkerReceive(w)
    \/ \E w \in WorkerIds : WorkerRunChunk(w)
    \/ Cancel

EvalSpec == EvalInit /\ [][EvalNext]_vars

\* One Evaluate call on a non-empty list, the evaluator being made with any
\* worker count and batch size, 0 and negative ones included; the context
\* is not cancelled.
OptionsInit ==
    /\ CacheUnused
    /\ \E w \in -1..MaxWorkers, b \in -1..MaxBatchSize, n \in 1..MaxMovies :
          \E F \in [1..n -> RunOutcomes] :
             /\ PoolNew(w)
             /\ EvalNew(w, b, n, [k \in {1} |-> F])

OptionsNext ==
    \/ MainEvaluate
    \/ EvalSubmitChunk(Main)
    \/ SubmitSend(Main)
    \/ EvalSubmitReturn(Main)
    \/ EvalCollect(Main)
    \/ EvalFinish(Main)
    \/ MainEvaluateReturn
    \/ \E w \in WorkerIds : WorkerReceive(w)
    \/ \E w \in WorkerIds : WorkerRunChunk(w)

OptionsSpec == OptionsInit /\ [][OptionsNext]_vars

\* The filters of a batch: nf filters that differ from one another, filter k
\* being true on the records from the k-th on.
BatchFilters(nf, n) ==
    [k \in 1..nf |-> [m \in 1..n |-> IF m >= k THEN "true" ELSE "false"]]

\* One EvaluateBatch call on a running pool: the per-filter tasks run on the
\* workers and call Evaluate there, which submits its chunks to the same
\* pool.
BatchInit ==
    /\ CacheUnused
    /\ \E w \in 1..MaxWorkers, b \in 1..MaxBatchSize, n \in 1..MaxMovies,
          nf \in 1..MaxFilters :
          /\ PoolNew(w)
          /\ EvalNew(w, b, n, BatchFilters(nf, n))

\* The steps of the call while the context is not cancelled.
BatchLiveNext ==
    \/ MainEvaluateBatch
    \/ \E name \in FilterNames : BatchSubmitFilter(name)
    \/ BatchSubmitReturn
    \/ BatchCollect
    \/ BatchFinish
    \/ \E t \in EvalThreads : SubmitSend(t)
    \/ \E t \in EvalThreads : SubmitBlockedSend(t)
    \/ \E t \in EvalThreads : SubmitTimeout(t)
    \/ \E t \in EvalThreads : SubmitRetry(t)
    \/ \E w \in WorkerIds : WorkerReceive(w)
    \/ \E w \in WorkerIds : WorkerRunFilter(w)
    \/ \E w \in WorkerIds : WorkerFilterReturn(w)
    \/ \E w \in WorkerIds : WorkerRunChunk(w)
    \/ \E w \in WorkerIds : EvalSubmitChunk(w)
    \/ \E w \in WorkerIds : EvalSubmitReturn(w)
    \/ \E w \in WorkerIds : EvalCollect(w)
    \/ \E w \in WorkerIds : EvalFinish(w)

BatchLiveSpec == BatchInit /\ [][BatchLiveNext]_vars

\* The same call, the caller's context being cancelled at any moment.
BatchNext ==
    \/ BatchLiveNext
    \/ Cancel

BatchSpec == BatchInit /\ [][BatchNext]_vars

\* The same call with any record list, the empty one included, the context
\* never being cancelled.
BatchAnyInit ==
    /\ CacheUnused
    /\ \E w \in 1..MaxWorkers, b \in 1..MaxBatchSize, n \in 0..MaxMovies,
          nf \in 1..MaxFilters :
          /\ PoolNew(w)
          /\ EvalNew(w, b, n, BatchFilters(nf, n))

BatchAnySpec == BatchAnyInit /\ [][BatchLiveNext]_vars

-----------------------------------------------------------------------------
(***************************************************************************)
(* The runs of the cache.                                                  *)
(***************************************************************************)

\* Calls from several threads: the two halves of Get interleave with the
\* other threads' calls.  Every Put stores the same value.
CacheNext ==
    \/ \E t \in Threads, k \in Keys : Put(t, k, NoFilter) /\ UNCHANGED otherVars
    \/ \E t \in Threads, k \in Keys : GetLookup(t, k) /\ UNCHANGED otherVars
    \/ \E t \in Threads : GetPromote(t) /\ UNCHANGED otherVars
    \/ \E t \in Threads : Clear(t) /\ UNCHANGED otherVars

CacheInit == CacheNew(FALSE) /\ PoolUnused /\ CompUnused

CacheSpec == CacheInit /\ [][CacheNext]_vars


\* Calls made one after another (by one thread, or under outside
\* serialisation): every call runs to its return before the next starts.
CacheSeqNext ==
    \/ \E k \in Keys, v \in CacheValues : Put(1, k, v) /\ UNCHANGED otherVars
    \/ \E k \in Keys : Get(1, k) /\ UNCHANGED otherVars
    \/ Clear(1) /\ UNCHANGED otherVars

CacheSeqInit == CacheNew(TRUE) /\ PoolUnused /\ CompUnused

CacheSeqSpec == CacheSeqInit /\ [][CacheSeqNext]_vars

-----------------------------------------------------------------------------
(***************************************************************************)
(* The runs of the compiler and of the manager.                            *)
(***************************************************************************)

\* A caller with two expression strings compiles them, in any order and any
\* number of times, on a new compiler with or without a cache.
CompInit ==
    /\ CacheNew(TRUE)
    /\ PoolUnused
    /\ ManagerNew
    /\ \E e1 \in Exprs, e2 \in Exprs, cached \in BOOLEAN : CompNew(<<e1, e2>>, cached)

CompNext ==
    \/ \E i \in DOMAIN exprs : Compile(i)
    \/ \E i \in DOMAIN exprs : ParseAndCreateFilter(i)

CompSpec == CompInit /\ [][CompNext]_vars

\* A caller compiles two expressions and clears the compiler's cache, in any
\* order and any number of times.
ClearInit ==
    /\ CacheNew(TRUE)
    /\ PoolUnused
    /\ ManagerNew
    /\ \E cached \in BOOLEAN : CompNew(<< <<"t">>, <<"!", "t">> >>, cached)

ClearNext ==
    \/ \E i \in DOMAIN exprs : Compile(i)
    \/ CompilerClear

ClearSpec == ClearInit /\ [][ClearNext]_vars

\* The expressions the callers of the manager use: two that compile, one
\* that differs from the first by a leading blank, one that does not
\* compile, and a blank one.
ManagerExprs ==
    << <<"t">>, <<"!", "t">>, <<Blank, "t">>, <<"!">>, <<Blank>> >>

\* A caller registers, replaces and removes filters of a new manager, whose
\* compiler caches (NewManager: WithCache(100), a cache no run here fills).
ManagerInit ==
    /\ CacheNew(TRUE)
    /\ csize = MaxCap
    /\ PoolUnused
    /\ ManagerNew
    /\ CompNew(ManagerExprs, TRUE)

ManagerNext ==
    \/ \E name \in Names, i \in DOMAIN exprs : RegisterFilter(name, i)
    \/ \E name \in Names : UnregisterFilter(name)
    \/ \E b \in Batches : RegisterFilters(b)
    \/ \E name \in Names : RegisterCompile(name)
    \/ RegisterCommit

ManagerSpec == ManagerInit /\ [][ManagerNext]_vars

\* The expressions the callers of the registry use: two that compile and
\* one that does not.
RegistryExprs == << <<"t">>, <<"!", "t">>, <<"!">> >>

\* The registries that earlier RegisterFilters calls of these expressions
\* leave.
Registries ==
    UNION {[S -> {Compiled(RegistryExprs[i]) :
                     i \in {j \in DOMAIN RegistryExprs : Compilable(RegistryExprs[j])}}] :
           S \in SUBSET Names}

\* Threads call a manager concurrently, after the registrations that made
\* its registry.
RegistryInit ==
    /\ CacheNew(FALSE)
    /\ csize = 1
    /\ PoolUnused
    /\ CompNew(RegistryExprs, FALSE)
    /\ registry \in Registries
    /\ reg = NoReg
    /\ regLog = [op |-> "new", before |-> <<>>, batch |-> <<>>, ret |-> "none"]
    /\ mu = [writer |-> 0, readers |-> {}]
    /\ mcall = [t \in Threads |-> NoCall]
    /\ mhist = [vers |-> <<registry>>, log |-> <<>>]

RegistryNext ==
    \/ \E t \in Threads, c \in Calls : Call(t, c)
    \/ \E t \in Threads : Lock(t)
    \/ \E t \in Threads : RLock(t)
    \/ \E t \in Threads : WriteStep(t)
    \/ \E t \in Threads : Unlock(t)
    \/ \E t \in Threads : ReadStep(t)
    \/ \E t \in Threads : SelectNotFound(t)
    \/ \E t \in Threads : RUnlock(t)

RegistrySpec == RegistryInit /\ [][RegistryNext]_vars

\* A thread calls EvaluateFilter, EvaluateAll or EvaluateSelected on a manager
\* with a registry and a running pool: the call reads the registry and runs
\* the evaluator on the record list, the context being cancelled at any
\* moment.  No Submit of the run waits for room in the queue and gets it.
ManagerEvalInit ==
    /\ CacheNew(FALSE)
    /\ csize = 1
    /\ CompNew(RegistryExprs, FALSE)
    /\ registry \in Registries
    /\ reg = NoReg
    /\ regLog = [op |-> "new", before |-> <<>>, batch |-> <<>>, ret |-> "none"]
    /\ mu = [writer |-> 0, readers |-> {}]
    /\ mcall = [t \in Threads |-> NoCall]
    /\ mhist = [vers |-> <<registry>>, log |-> <<>>]
    /\ \E b \in 1..MaxBatchSize, n \in 0..MaxMovies :
          /\ PoolNew(MaxWorkers)
          /\ workerCount = MaxWorkers
          /\ batchSize = b
          /\ movies = [i \in 1..n |-> i]
    /\ filters = <<>>
    /\ ctxDone = FALSE
    /\ ev = [t \in EvalThreads |-> NoEv]
    /\ bt = NoBt
    /\ mainPc = "idle"
    /\ mainRet = NoRet
    /\ evLog = [skipped |-> {}, evaluated |-> {}, unevaluated |-> {},
                ctxAtCall |-> FALSE]

ManagerEvalNext ==
    \/ \E c \in EvalCalls : ManagerCall(1, c)
    \/ \E t \in Threads : RLock(t)
    \/ \E t \in Threads : ReadStep(t)
    \/ \E t \in Threads : SelectNotFound(t)
    \/ \E t \in Threads : RUnlock(t)
    \/ ManagerEvaluate
    \/ ManagerEvaluateFilter
    \/ ManagerEvaluateBatch
    \/ MainEvaluateReturn
    \/ \E name \in FilterNames : BatchSubmitFilter(name)
    \/ BatchSubmitReturn
    \/ BatchCollect
    \/ BatchFinish
    \/ \E t \in EvalThreads : EvalSubmitChunk(t)
    \/ \E t \in EvalThreads : SubmitSend(t)
    \/ \E t \in EvalThreads : SubmitTimeout(t)
    \/ \E t \in EvalThreads : EvalSubmitReturn(t)
    \/ \E t \in EvalThreads : EvalCollect(t)
    \/ \E t \in EvalThreads : EvalFinish(t)
    \/ \E w \in WorkerIds : WorkerReceive(w)
    \/ \E w \in WorkerIds : WorkerRunFilter(w)
    \/ \E w \in WorkerIds : WorkerFilterReturn(w)
    \/ \E w \in WorkerIds : WorkerRunChunk(w)
    \/ Cancel

ManagerEvalSpec == ManagerEvalInit /\ [][ManagerEvalNext]_vars

\* The pieces the legacy filters of the runs are made of: the start of a tag
\* term and of an added_after term, a double quote, other text, and a whole
\* watched term.
Pieces ==
    << << "tag", ":", Quote >>, << "added_after", ":", Quote >>, << Quote >>,
       << "x" >>, << "watched", ":", "true" >> >>

\* The filters of up to n pieces.
RECURSIVE PieceSeqs(_)
PieceSeqs(n) ==
    IF n = 0 THEN {<<>>}
    ELSE PieceSeqs(n - 1) \cup
         {s \o Pieces[i] : s \in PieceSeqs(n - 1), i \in DOMAIN Pieces}

\* One ConvertLegacyFilter call on any of these filters.
ConvInit ==
    /\ CacheNew(FALSE)
    /\ csize = 1
    /\ PoolUnused
    /\ ManagerNew
    /\ exprs = <<>>
    /\ caching = FALSE
    /\ intern = <<>>
    /\ ncompiled = 0
    /\ compLog = <<>>
    /\ pcf = [called |-> FALSE, expr |-> <<>>, err |-> "none", program |-> <<>>]
    /\ conv \in {ConvStart(s) : s \in PieceSeqs(MaxPieces)}

ConvNext == \E r \in DOMAIN Patterns : ApplyPattern(r)

ConvSpec == ConvInit /\ [][ConvNext]_vars

\* The tag values of the legacy expressions of the runs, and the tags the
\* records of the runs carry.
TagValues ==
    {<< "action" >>, << "watched", ":", "true" >>, << "action", " AND ", "action" >>}
TagPool ==
    {<< "Action" >>, << "watched", ":", "true" >>, << "Movie.Watched == ", "true" >>}

\* The record lists of these runs: a record is the set of its TagNames.
TaggedLists == UNION {[1..n -> SUBSET TagPool] : n \in 0..MaxTagged}

\* One ParseAndCreateFilter call on the legacy expression tag:"X", the
\* predicate it returns being run on a list of tagged records.
LegacyInit ==
    /\ CacheNew(FALSE)
    /\ csize = 1
    /\ \E x \in TagValues :
          CompNew(<< << "tag", ":", Quote >> \o x \o << Quote >> >>, FALSE)
    /\ ManagerNew
    /\ PoolNew(1)
    /\ \E tags \in TaggedLists :
          /\ workerCount = 1
          /\ batchSize = 1
          /\ movies = tags
          /\ filters = <<>>
          /\ ctxDone = FALSE
          /\ ev = [t \in EvalThreads |-> NoEv]
          /\ bt = NoBt
          /\ mainPc = "idle"
          /\ mainRet = NoRet
          /\ evLog = [skipped |-> {}, evaluated |-> {}, unevaluated |-> {},
                      ctxAtCall |-> FALSE]

LegacyNext ==
    \/ \E i \in DOMAIN exprs : ParseLegacy(i)
    \/ \E r \in DOMAIN Patterns : ApplyPattern(r)
    \/ ParseConverted

LegacySpec == LegacyInit /\ [][LegacyNext]_vars

-----------------------------------------------------------------------------
(***************************************************************************)
(* Claims about the cache.                                                 *)
(***************************************************************************)

\* C8: under every interleaving of Get, Put and Clear from several threads
\* the key index and the recency list hold exactly the same keys, Size()
\* is that number of keys and never exceeds the capacity, and no call
\* panics.
C8_CacheConsistent ==
    /\ IndexKeys = ListKeys(lst)
    /\ Len(ListElems(lst)) = Cardinality(IndexKeys)
    /\ Size = Cardinality(IndexKeys)
    /\ Size <= csize
    /\ ~cpanic

\* The keys for which a Get call made now reports found.
FoundKeys == {k \in Keys : items[k] # Nil}

\* C9: after any sequence of Get, Put and Clear calls on a cache of capacity
\* c >= 1, Size() is at most c and equals the number of distinct keys for
\* which Get reports found.
C9_SizeBounded ==
    /\ Size <= csize
    /\ Size = Cardinality(FoundKeys)

\* C9's case: a full cache after a Put that evicted.
C9_Witness ==
    /\ Size = csize
    /\ lastOp.op = "put" /\ lastOp.evicted # {}

\* C10: a Put of a new key into a full cache evicts exactly one entry, the
\* least recently used one, never the most recently used one (nor the key
\* being inserted); a Put that finds room evicts nothing; and after capacity+1
\* distinct keys were inserted into an empty cache Size() is the capacity
\* and the first-inserted, never re-accessed key is gone.
C10_EvictsLRU ==
    /\ (lastOp.op = "put" /\ lastOp.isNew /\ lastOp.full) =>
          /\ lastOp.evicted = {lastOp.lru}
          /\ lastOp.key \notin lastOp.evicted
          /\ (csize > 1 => lastOp.mru \notin lastOp.evicted)
          /\ Size = csize
    /\ (lastOp.op = "put" /\ ~(lastOp.isNew /\ lastOp.full)) =>
          lastOp.evicted = {}
    /\ (lastOp.op = "put" /\ lastOp.isNew /\ Len(putSeq) = csize + 1
            /\ putSeq[1] \notin touched) =>
          /\ Size = csize
          /\ items[putSeq[1]] = Nil
          /\ \A i \in 2..Len(putSeq) : items[putSeq[i]] # Nil

\* C10's case: capacity+1 inserts into an empty cache, the last one evicting
\* the first-inserted key.
C10_Witness ==
    /\ lastOp.op = "put" /\ lastOp.isNew /\ lastOp.full
    /\ Len(putSeq) = csize + 1
    /\ putSeq[1] \notin touched
    /\ lastOp.evicted = {putSeq[1]}

-----------------------------------------------------------------------------
(***************************************************************************)
(* Claims about Evaluate.                                                  *)
(***************************************************************************)

\* C1: for a record list with at least batch-size records, every worker
\* count >= 1 and every scheduling of the chunk tasks, an Evaluate call that
\* returns without error returns exactly the records the filter is true on,
\* each once, in input order: the result of a sequential scan.
C1_OrderPreserved ==
    (mainPc = "done" /\ mainRet.err = "nil" /\ nmovies >= batchSize) =>
        mainRet.val = SelectSeq(movies, LAMBDA m : FilterEvaluate(filters[1], m))

\* C1's case: two chunks whose results arrived in the opposite order, both
\* with matches.
C1_Witness ==
    /\ mainPc = "done" /\ mainRet.err = "nil" /\ nmovies >= batchSize
    /\ ev[Main].arrived = <<1, 0>>
    /\ Len(mainRet.val) >= 2

\* The chunks of the caller's call that skipped their work, and the records
\* of the chunks that did it.
SkippedChunks == {c \in evLog.skipped : c[1] = 0}
EvaluatedRecords ==
    UNION {(c[2] + 1)..c[3] : c \in {d \in evLog.evaluated : d[1] = 0}}

\* C5: Evaluate never returns a partial result: if a chunk task skipped its
\* work because the context was cancelled, the call returns the cancellation
\* error and no matches; when it returns a nil error, every chunk of the
\* input was evaluated and collected.
C5_NoPartialResult ==
    mainPc = "done" =>
        /\ SkippedChunks # {} => mainRet = [val |-> <<>>, err |-> "ctxErr"]
        /\ (mainRet.err = "nil" /\ nmovies >= batchSize) =>
              /\ SkippedChunks = {}
              /\ EvaluatedRecords = 1..nmovies
              /\ DOMAIN ev[Main].results = 0..(ev[Main].chunkIndex - 1)

\* C5's case: one chunk was evaluated, a later one skipped, and the call
\* returned the cancellation error.
C5_Witness ==
    /\ mainPc = "done"
    /\ SkippedChunks # {}
    /\ EvaluatedRecords # {}
    /\ mainRet = [val |-> <<>>, err |-> "ctxErr"]

\* C7: if the context is already cancelled when Evaluate is called on a
\* non-empty record list, Evaluate returns the cancellation error and no
\* matches, for lists below the batch-size threshold as for longer ones.
C7_CancelledCallFails ==
    (mainPc = "done" /\ evLog.ctxAtCall /\ nmovies > 0) =>
        mainRet = [val |-> <<>>, err |-> "ctxErr"]


-----------------------------------------------------------------------------
(***************************************************************************)
(* Claims about the pool and about EvaluateBatch.                          *)
(***************************************************************************)

\* C2: on a running pool with an uncancelled context every EvaluateBatch
\* call over at least batch-size records returns, for every number of
\* filters and of workers: as long as the call has not returned, some step
\* of it or of a worker can be taken.
C2_BatchReturns == mainPc = "done" \/ ENABLED BatchLiveNext

\* C3: a Submit call that Stop finds waiting on a full queue, or between its
\* stopped check and its send, returns ErrPoolStopped without enqueuing its
\* work, and no interleaving of Submit and Stop sends on the closed queue.
C3_StopInterruptsSubmit ==
    /\ ~ppanic
    /\ \A id \in TaskIds : taskLog[id].caught => taskLog[id].state # "accepted"

\* C4: every Submit call that starts after Stop has been called returns
\* ErrPoolStopped, and its work is never queued nor executed.
C4_SubmitAfterStop ==
    \A id \in TaskIds :
        taskLog[id].late =>
            /\ taskLog[id].state = "rejected"
            /\ taskLog[id].runs = 0
            /\ \A i \in 1..Len(queue) : queue[i] # WorkTask(id)
            /\ \A w \in WorkerIds : wst[w].task # WorkTask(id)

\* C4's case: Stop has returned, work accepted before it was run, and a
\* Submit call made after it was refused.
C4_Witness ==
    /\ stopPc = "done"
    /\ \E id \in TaskIds : taskLog[id].late /\ taskLog[id].state = "rejected"
    /\ \E id \in TaskIds : taskLog[id].state = "accepted" /\ taskLog[id].runs = 1

\* C6: if the context is cancelled during EvaluateBatch so that a filter is
\* not evaluated, EvaluateBatch returns a non-nil error.
C6_BatchCancelReported ==
    (mainPc = "done" /\ evLog.unevaluated # {}) => mainRet.err # "nil"

-----------------------------------------------------------------------------
(***************************************************************************)
(* Claims about the manager and the compiler.                              *)
(***************************************************************************)

\* C11: RegisterFilters is all-or-nothing.  While the call compiles, and
\* when it returns an error, the registry is as it was before the call; it
\* returns an error only if an expression of the batch does not compile;
\* when it returns nil every expression of the batch compiles, every name of
\* the batch is registered with the filter of its expression, and the other
\* names are as before.
C11_AllOrNothing ==
    regLog.op = "RegisterFilters" =>
        /\ regLog.ret \in {"running", "error"} => registry = regLog.before
        /\ regLog.ret = "error" =>
              \E name \in DOMAIN regLog.batch :
                  ~Compilable(exprs[regLog.batch[name]])
        /\ regLog.ret = "nil" =>
              /\ \A name \in DOMAIN regLog.batch :
                    /\ Compilable(exprs[regLog.batch[name]])
                    /\ name \in DOMAIN registry
                    /\ registry[name].expression =
                           TrimSpace(exprs[regLog.batch[name]])
              /\ \A name \in (DOMAIN regLog.before) \ DOMAIN regLog.batch :
                    /\ name \in DOMAIN registry
                    /\ registry[name] = regLog.before[name]
              /\ DOMAIN registry = DOMAIN regLog.before \cup DOMAIN regLog.batch

\* C11's case: a batch of two names failed, one of its expressions compiles
\* and would have replaced the filter registered under its name.
C11_Witness ==
    /\ regLog.op = "RegisterFilters"
    /\ regLog.ret = "error"
    /\ Cardinality(DOMAIN regLog.batch) = 2
    /\ \E name \in DOMAIN regLog.batch \cap DOMAIN regLog.before :
          /\ Compilable(exprs[regLog.batch[name]])
          /\ regLog.before[name].expression # TrimSpace(exprs[regLog.batch[name]])

-----------------------------------------------------------------------------
(***************************************************************************)
(* Claims about the results of EvaluateBatch and of Evaluate.              *)
(***************************************************************************)

\* The records a filter matches, in input order: those its program runs to
\* true on.
Matching(F) == SelectSeq(movies, LAMBDA m : F[m] = "true")

\* C12: with a context that is not cancelled and a running pool (no filter
\* evaluation errors), an EvaluateBatch call over a non-empty record list
\* that returns returns a nil error and a map whose keys are exactly the
\* names of the submitted filters, the value under each name being the
\* records that filter matches, in input order.
C12_BatchExact ==
    (mainPc = "done" /\ nmovies > 0) =>
        /\ mainRet.err = "nil"
        /\ DOMAIN mainRet.val = DOMAIN filters
        /\ \A name \in DOMAIN filters : mainRet.val[name] = Matching(filters[name])

\* C12's case: a batch of several filters with different matches, evaluated
\* in chunks on the pool.
C12_Witness ==
    /\ mainPc = "done"
    /\ Cardinality(DOMAIN filters) >= 2
    /\ nmovies >= batchSize
    /\ DOMAIN mainRet.val = DOMAIN filters
    /\ mainRet.val[1] # mainRet.val[2]

\* C13: when EvaluateBatch has submitted every filter and returns, it returns
\* a nil error; the filters whose evaluation returned an error are left out
\* of the result map, and every other filter is in it with the records it
\* matches.
C13_ErrorsOmitted ==
    mainPc = "done" =>
        /\ mainRet.err = "nil"
        /\ DOMAIN mainRet.val = (DOMAIN filters) \ evLog.unevaluated
        /\ \A name \in DOMAIN mainRet.val :
              mainRet.val[name] = Matching(filters[name])

\* C13's case: one filter's evaluation returned an error, another filter's
\* did not and matched records.
C13_Witness ==
    /\ mainPc = "done"
    /\ evLog.unevaluated # {}
    /\ \E name \in DOMAIN mainRet.val : mainRet.val[name] # <<>>

-----------------------------------------------------------------------------
(***************************************************************************)
(* Claims about Stop.                                                      *)
(***************************************************************************)

\* The work items whose Submit call returned nil.
Accepted == {id \in TaskIds : taskLog[id].state = "accepted"}

\* How many times a work item is in the pool's hands: waiting in the queue,
\* being run by a worker, or run to its end.
Held(id) ==
    Cardinality({i \in 1..Len(queue) : queue[i] = WorkTask(id)})
    + Cardinality({w \in WorkerIds : wst[w] = [pc |-> "run", task |-> WorkTask(id)]})
    + taskLog[id].runs

\* C14: every work item for which Submit returned nil is executed exactly
\* once by one worker, those waiting in the queue when Stop is called
\* included: at every moment an accepted work item is either waiting in the
\* queue (once), or being run by one worker, or has run once, and no other
\* work item is; a worker exits only when the queue is drained; and when
\* Stop has returned nil every worker has exited and every accepted work
\* item has run.
C14_AcceptedRunOnce ==
    /\ \A id \in TaskIds : Held(id) = IF id \in Accepted THEN 1 ELSE 0
    /\ \A w \in WorkerIds : wst[w].pc = "exited" => (closed /\ queue = <<>>)
    /\ stopRet = "nil" =>
          /\ \A w \in WorkerIds : wst[w].pc \in {"exited", "absent"}
          /\ \A id \in Accepted : taskLog[id].runs = 1

\* C14's case: Stop found a work item waiting in the queue and returned nil
\* after the workers had run it.
C14_Witness ==
    /\ stopRet = "nil"
    /\ \E id \in Accepted : taskLog[id].waiting /\ taskLog[id].runs = 1

\* C15: a Stop call made after the first one returned returns nil and
\* changes nothing of the pool: it does not close the queue again.
C15_StopIdempotent ==
    [][stopLog'.calls > stopLog.calls =>
          (stopLog'.ret = "nil" /\ UNCHANGED poolVars)]_vars

\* C15's case: the first Stop call ran into its deadline, a worker is still
\* running a work item, and a later Stop call returned nil.
C15_Witness ==
    /\ stopLog.calls >= 1
    /\ stopLog.ret = "nil"
    /\ stopRet = "ctxErr"
    /\ \E w \in WorkerIds : wst[w].pc = "run"

\* C16: when the deadline of Stop fired, Stop returned the context's error;
\* the pool is stopped and its queue closed; a work item in flight at that
\* moment is still being run by its worker or has run to its end, once; and
\* every later Submit call was refused.
C16_DeadlineStop ==
    stopLog.expired =>
        /\ stopRet = "ctxErr"
        /\ stopped /\ closed
        /\ \A id \in TaskIds :
              taskLog[id].inflight =>
                  \/ taskLog[id].runs = 1
                  \/ /\ taskLog[id].runs = 0
                     /\ \E w \in WorkerIds :
                           wst[w] = [pc |-> "run", task |-> WorkTask(id)]
        /\ \A id \in TaskIds :
              (taskLog[id].late /\ taskLog[id].state # "unused") =>
                  taskLog[id].state = "rejected"

\* C16's case: the deadline fired with a work item in flight, which then ran
\* to its end, and a Submit call made afterwards was refused.
C16_Witness ==
    /\ stopLog.expired
    /\ \E id \in TaskIds : taskLog[id].inflight /\ taskLog[id].runs = 1
    /\ \E id \in TaskIds : taskLog[id].late /\ taskLog[id].state = "rejected"

\* C17: a record on which the filter's program fails with a runtime error
\* counts as not matching and the error goes no further: an Evaluate call
\* that returns a nil error, over a short list or a chunked one, returns
\* exactly the records the program runs to true on, in input order, those
\* after a failing record included.
C17_ErrorsAreFalse ==
    (mainPc = "done" /\ mainRet.err = "nil") =>
        mainRet.val = Matching(filters[1])

\* C17's case: in a chunked run the program failed on one record and a
\* later record matched and was returned.
C17_Witness ==
    /\ mainPc = "done" /\ mainRet.err = "nil"
    /\ nmovies >= batchSize
    /\ \E i \in 1..nmovies, j \in 1..nmovies :
          /\ i < j
          /\ filters[1][i] = "error"
          /\ filters[1][j] = "true"
          /\ \E p \in 1..Len(mainRet.val) : mainRet.val[p] = j

-----------------------------------------------------------------------------
(***************************************************************************)
(* Claims about Compile and its cache.                                     *)
(***************************************************************************)

\* C18: with caching enabled, when the same expression string is compiled
\* twice in a row and the first call succeeded, the second call returns the
\* filter the first one returned without calling expr.Compile, and leaves the
\* size of the cache as it was; when these are the first two calls of the
\* compiler, Size() is 1.
C18_SecondCompileHits ==
    \A i \in 1..(Len(compLog) - 1) :
        (caching /\ compLog[i].expr = compLog[i + 1].expr
                 /\ compLog[i].err = "nil") =>
            /\ compLog[i + 1].err = "nil"
            /\ compLog[i + 1].filter = compLog[i].filter
            /\ compLog[i + 1].compiled = compLog[i].compiled
            /\ compLog[i + 1].size = compLog[i].size
            /\ i = 1 => compLog[i + 1].size = 1

\* C18's case: the first two calls of a caching compiler compile the same
\* expression, which compiles.
C18_Witness ==
    /\ caching
    /\ Len(compLog) >= 2
    /\ compLog[1].expr = compLog[2].expr
    /\ compLog[1].kind = "compiled"
    /\ compLog[2].kind = "hit"

\* An expression of blanks only, the empty one included.
IsBlank(e) == \A i \in 1..Len(e) : e[i] = Blank

\* C19: for an empty or blank expression Compile returns no filter and the
\* compilation error "empty expression", while ParseAndCreateFilter returns
\* no error and a predicate that is true of every record.
C19_EmptyExpression ==
    /\ \A i \in 1..Len(compLog) :
          IsBlank(compLog[i].expr) =>
              /\ compLog[i].err = "empty expression"
              /\ compLog[i].filter = NoFilter
    /\ (pcf.called /\ IsBlank(pcf.expr)) =>
          /\ pcf.err = "nil"
          /\ pcf.program = [m \in 1..MaxMovies |-> "true"]

\* C19's case: both entry points were called with an expression of blanks.
C19_Witness ==
    /\ \E i \in 1..Len(compLog) : IsBlank(compLog[i].expr) /\ Len(compLog[i].expr) > 0
    /\ pcf.called /\ IsBlank(pcf.expr) /\ Len(pcf.expr) > 0

\* The first two calls of a caching compiler of capacity two or more
\* compiled two different expression strings, both with success.
TwoCompiled ==
    /\ caching /\ csize >= 2
    /\ Len(compLog) = 2
    /\ compLog[1].expr # compLog[2].expr
    /\ compLog[1].err = "nil" /\ compLog[2].err = "nil"

\* C20 as stated: the cache key is the exact expression string; two
\* expression strings that differ only in their blanks take two cache
\* entries, Size() is 2 after compiling both.
C20_ExactStringKey ==
    (TwoCompiled /\ NoBlanks(compLog[1].expr) = NoBlanks(compLog[2].expr)) =>
        compLog[2].size = 2

\* C20 as amended: the cache key is the expression string with its leading
\* and trailing blanks removed and not normalized any further; two
\* expression strings take two cache entries (Size() is 2) when they differ
\* after that trimming, in blanks inside the expression included, and one
\* entry (Size() is 1) when they differ only in leading or trailing blanks.
C20_TrimmedStringKey ==
    TwoCompiled =>
        compLog[2].size =
            IF TrimSpace(compLog[1].expr) = TrimSpace(compLog[2].expr) THEN 1 ELSE 2

\* C20's case: two expressions that differ only in a blank inside them.
C20_Witness ==
    /\ TwoCompiled
    /\ NoBlanks(compLog[1].expr) = NoBlanks(compLog[2].expr)
    /\ TrimSpace(compLog[1].expr) # TrimSpace(compLog[2].expr)
    /\ compLog[2].size = 2


\* C21: a Compile call that fails returns no filter and a CompilationError
\* that carries the expression string the caller passed, and leaves the size
\* of the cache as it was before the call.
C21_FailedCompile ==
    \A i \in 1..Len(compLog) :
        compLog[i].err # "nil" =>
            /\ compLog[i].filter = NoFilter
            /\ compLog[i].errExpr = compLog[i].expr
            /\ compLog[i].size = IF i = 1 THEN 0 ELSE compLog[i - 1].size

\* The part of C21 about the cache: a Compile call that fails leaves the
\* cache, its contents and its recency order, as it was.
C21_CacheUnchanged ==
    [][(Len(compLog') > Len(compLog) /\ compLog'[Len(compLog')].err # "nil")
           => UNCHANGED cacheVars]_vars


-----------------------------------------------------------------------------
(***************************************************************************)
(* Claims about the Manager under concurrent calls.                        *)
(***************************************************************************)

\* The names of a name list or of a name -> value map.
Listed(l) == {l[i] : i \in DOMAIN l}

\* The calls of the log that the operation named made.
LogOf(ops) == {i \in DOMAIN mhist.log : mhist.log[i].op \in ops}

\* C22: an EvaluateSelected call one of whose names is in the registry at no
\* time of the call returns the "not found" error; every EvaluateSelected
\* call that returns "not found" returns a nil map and passes nothing to
\* EvaluateBatch; and a thread that is in no call, or waits for the lock,
\* holds the lock neither for reading nor for writing.
C22_NotFound ==
    /\ \A i \in LogOf({"EvaluateSelected"}) :
          LET e == mhist.log[i] IN
          /\ (\E n \in Listed(e.arg) :
                 \A k \in e.v0..e.v1 : n \notin DOMAIN mhist.vers[k])
                 => e.ret = "not found"
          /\ e.ret = "not found" => (e.out = <<>> /\ ~e.submitted)
    /\ \A t \in Threads :
          mcall[t].pc \in {"idle", "lock"} =>
              (t \notin mu.readers /\ mu.writer # t)

\* C22's case: EvaluateSelected found its first name and not its second,
\* and the same thread then registered a filter.
C22_Witness ==
    /\ Len(mhist.log) = 2
    /\ mhist.log[1].op = "EvaluateSelected"
    /\ mhist.log[1].ret = "not found"
    /\ Len(mhist.log[1].arg) = 2
    /\ mhist.log[1].arg[1] \in DOMAIN mhist.vers[1]
    /\ mhist.log[2].t = mhist.log[1].t
    /\ mhist.log[2].op = "RegisterFilter"
    /\ mhist.log[2].ret = "nil"

\* What a reading call returned is what it returns on the registry r.
Observes(e, r) ==
    CASE e.op \in {"GetFilter", "EvaluateFilter"} ->
             IF e.arg[1] \in DOMAIN r
             THEN e.ret = "nil" /\ e.out = (e.arg[1] :> r[e.arg[1]])
             ELSE e.ret = "not found" /\ e.out = <<>>
      [] e.op = "ListFilters" ->
             /\ Listed(e.out) = DOMAIN r
             /\ Len(e.out) = Cardinality(DOMAIN r)
      [] e.op = "EvaluateAll" ->
             /\ DOMAIN e.out = DOMAIN r
             /\ \A n \in DOMAIN r : e.out[n] = r[n]
      [] e.op = "EvaluateSelected" ->
             IF Listed(e.arg) \subseteq DOMAIN r
             THEN /\ e.ret = "nil"
                  /\ DOMAIN e.out = Listed(e.arg)
                  /\ \A n \in Listed(e.arg) : e.out[n] = r[n]
             ELSE e.ret = "not found"

\* The registry a writing call that returned nil makes of the registry r.
Effect(e, r) ==
    IF e.op = "UnregisterFilter"
    THEN [n \in (DOMAIN r) \ {e.arg[1]} |-> r[n]]
    ELSE [n \in (DOMAIN e.arg) \cup (DOMAIN r) |->
             IF n \in DOMAIN e.arg THEN Compiled(exprs[e.arg[n]]) ELSE r[n]]

\* C23: under concurrent calls the completed writes take effect one after
\* another, each making its whole change of the registry the one before it
\* left, and every read returns what it returns on the registry that one of
\* these writes left, at a time between the call and its return: no read
\* sees a part of a RegisterFilters batch.
C23_SerialRegistry ==
    \A i \in DOMAIN mhist.log :
        LET e == mhist.log[i] IN
        IF e.op \in Writers
        THEN e.ret = "nil" =>
                 /\ e.v1 > e.v0
                 /\ mhist.vers[e.v1] = Effect(e, mhist.vers[e.v1 - 1])
        ELSE \E k \in e.v0..e.v1 : Observes(e, mhist.vers[k])

\* C23's case: a RegisterFilters call of two names took effect between the
\* call and the return of an EvaluateAll or ListFilters call.
C23_Witness ==
    \E i \in LogOf({"RegisterFilters"}), j \in LogOf({"EvaluateAll", "ListFilters"}) :
        /\ mhist.log[i].ret = "nil"
        /\ Cardinality(DOMAIN mhist.log[i].arg) = 2
        /\ mhist.log[j].v0 < mhist.log[i].v1
        /\ mhist.log[i].v1 <= mhist.log[j].v1

\* C26: the registry is a map from name to filter.  RegisterFilter that
\* returns nil leaves the name registered with the filter of its expression,
\* replacing the one it had, and UnregisterFilter leaves the name absent;
\* both leave every other name as it was; RegisterFilter returns an error
\* exactly when its expression does not compile, and then writes nothing; a
\* GetFilter or ListFilters call made after the write, with no other write
\* before it returns, finds the name (or not) and lists each registered name
\* once.
C26_RegistryIsMap ==
    \A i \in LogOf({"RegisterFilter", "UnregisterFilter"}) :
        LET w == mhist.log[i]
            name == CHOOSE n \in Names :
                        IF w.op = "RegisterFilter" THEN n \in DOMAIN w.arg
                        ELSE n = w.arg[1]
        IN  IF w.ret = "error"
            THEN ~Compilable(exprs[w.arg[name]]) /\ w.v1 = w.v0
            ELSE LET before == mhist.vers[w.v1 - 1]
                     after == mhist.vers[w.v1]
                 IN  /\ w.op = "RegisterFilter" =>
                            /\ Compilable(exprs[w.arg[name]])
                            /\ name \in DOMAIN after
                            /\ after[name] = Compiled(exprs[w.arg[name]])
                     /\ w.op = "UnregisterFilter" => name \notin DOMAIN after
                     /\ \A m \in Names \ {name} :
                            /\ m \in DOMAIN after <=> m \in DOMAIN before
                            /\ m \in DOMAIN before => after[m] = before[m]
                     /\ \A j \in LogOf({"GetFilter", "ListFilters"}) :
                            LET r == mhist.log[j] IN
                            (r.v0 = w.v1 /\ r.v1 = w.v1) =>
                                IF r.op = "ListFilters"
                                THEN /\ Listed(r.out) = DOMAIN after
                                     /\ \A a, b \in DOMAIN r.out :
                                            r.out[a] = r.out[b] => a = b
                                ELSE r.ret = (IF r.arg[1] \in DOMAIN after
                                              THEN "nil" ELSE "not found")

\* C26's case: a RegisterFilter call replaced the filter of a name while
\* another name was registered, and a ListFilters call made after it
\* returned both names.
C26_Witness ==
    /\ Len(mhist.log) = 2
    /\ mhist.log[1].op = "RegisterFilter" /\ mhist.log[1].ret = "nil"
    /\ \E n \in DOMAIN mhist.log[1].arg :
          /\ n \in DOMAIN mhist.vers[1]
          /\ mhist.vers[1][n] # mhist.vers[2][n]
    /\ mhist.log[2].op = "ListFilters"
    /\ mhist.log[2].v0 = 2
    /\ Len(mhist.log[2].out) = 2


-----------------------------------------------------------------------------
(***************************************************************************)
(* Claims about Get, Put and Clear of the cache, in serial runs.           *)
(***************************************************************************)

\* C24: Get on a present key returns found with the value of the latest Put
\* of that key and moves the key to the front of the recency list, the end
\* that is evicted last, leaving the contents and the order of the other
\* keys as they were; Get on an absent key returns not found and the nil
\* value and leaves the index, the list and the values unchanged.
C24_GetPromotes ==
    [][lastOp'.op = "get" =>
          LET k == lastOp'.key IN
          IF items[k] # Nil
          THEN /\ lastOp'.found
               /\ lastOp'.value = latest[k]
               /\ ListKeySeq(lst')[1] = k
               /\ SeqWithout(ListKeySeq(lst'), k) = SeqWithout(ListKeySeq(lst), k)
               /\ items' = items /\ cval' = cval /\ Size' = Size
          ELSE /\ ~lastOp'.found
               /\ lastOp'.value = NoFilter
               /\ UNCHANGED <<items, lst, cval>>]_vars

\* C24's case: a full cache of capacity two, the last call was a Get that
\* found the key inserted first and put it before the key inserted second.
C24_Witness ==
    /\ lastOp.op = "get" /\ lastOp.found
    /\ csize = 2
    /\ Len(putSeq) = 2
    /\ lastOp.key = putSeq[1]
    /\ ListKeySeq(lst) = <<putSeq[1], putSeq[2]>>
    /\ lastOp.value = latest[lastOp.key]
    /\ latest[putSeq[1]] # latest[putSeq[2]]

\* C25: Put on a present key gives the key the new value and moves it to the
\* front of the recency list; the size, the keys present, the values and the
\* order of the other keys stay as they were and nothing is evicted, also
\* when the cache is full.
C25_PutUpdates ==
    [][(lastOp'.op = "put" /\ items[lastOp'.key] # Nil) =>
          LET k == lastOp'.key IN
          /\ cval'[k] = latest'[k]
          /\ ListKeySeq(lst')[1] = k
          /\ SeqWithout(ListKeySeq(lst'), k) = SeqWithout(ListKeySeq(lst), k)
          /\ Size' = Size
          /\ items' = items
          /\ \A j \in Keys \ {k} : cval'[j] = cval[j]
          /\ lastOp'.evicted = {}]_vars

\* C25's case: in a full cache of capacity two the last call was a Put on
\* the least recently used key, which gave it a value other than the one
\* its first Put gave.
C25_Witness ==
    /\ lastOp.op = "put" /\ lastOp.found /\ lastOp.full
    /\ csize = 2 /\ Size = 2
    /\ lastOp.lru = lastOp.key
    /\ ListKeySeq(lst)[1] = lastOp.key
    /\ touched = {lastOp.key}
    /\ cval[lastOp.key].id = 2


\* C27: right after Clear the cache is empty: Size() is 0, the index and the
\* list hold no key and no value is kept, so a Get of any key misses; and
\* the cache then behaves as a new one: a Compile call that follows the
\* Clear and succeeds finds nothing in the cache, compiles the expression
\* and stores it, after which Size() is 1; and at all times the keys of the
\* cache and their order are those that the calls made since the last Clear
\* (or since construction, if there was none) give, at most the capacity.
C27_ClearEmpties ==
    /\ caching => (ListKeySeq(lst) = recency /\ Size = Len(recency) /\ Size <= csize)
    /\ lastOp.op = "clear" =>
          /\ Size = 0
          /\ ListElems(lst) = <<>>
          /\ \A k \in Keys : items[k] = Nil /\ cval[k] = NoFilter
    /\ \A i \in 1..Len(compLog) :
          (compLog[i].afterClear /\ compLog[i].err = "nil") =>
              /\ compLog[i].kind = "compiled"
              /\ compLog[i].size = 1

\* C27's case: an expression was compiled and cached, the cache was cleared,
\* and the same expression was compiled again.
C27_Witness ==
    /\ caching
    /\ Len(compLog) = 2
    /\ compLog[1].kind = "compiled" /\ compLog[1].size = 1
    /\ compLog[2].afterClear
    /\ compLog[2].expr = compLog[1].expr
    /\ compLog[2].size = 1

-----------------------------------------------------------------------------
(***************************************************************************)
(* Claims about the result map of EvaluateBatch.                           *)
(***************************************************************************)

\* C29: for every record list, the empty one included, an EvaluateBatch call
\* with a non-empty filter map that returns a nil error returns a map with
\* one key per filter whose evaluation returned no error, each key holding
\* the records its filter matches; for the empty record list every filter
\* name is a key and holds the empty subset.
C29_OneKeyPerFilter ==
    (mainPc = "done" /\ mainRet.err = "nil" /\ DOMAIN filters # {}) =>
        /\ DOMAIN mainRet.val = (DOMAIN filters) \ evLog.unevaluated
        /\ \A name \in DOMAIN mainRet.val :
              mainRet.val[name] = Matching(filters[name])
        /\ nmovies = 0 =>
              \A name \in DOMAIN filters :
                  /\ name \in DOMAIN mainRet.val
                  /\ mainRet.val[name] = <<>>

-----------------------------------------------------------------------------
(***************************************************************************)
(* Claims about what evaluation writes.                                    *)
(***************************************************************************)

-----------------------------------------------------------------------------
(***************************************************************************)
(* Claims about ConvertLegacyFilter.                                       *)
(***************************************************************************)

\* The conversion that applies the patterns from the i-th on in the order of
\* the source text.
RECURSIVE ConvertFrom(_, _)
ConvertFrom(s, i) ==
    IF i > Len(Patterns) THEN s ELSE ConvertFrom(ReplaceAllStringFunc(i, s), i + 1)

\* C30: ConvertLegacyFilter is a function of its input: in whatever order
\* the patterns were applied, the string it returns is the one that
\* applying them in the order of the source text gives, also when the
\* matches of two patterns overlap or lie inside one another.
C30_OrderInsensitive ==
    conv.pending = {} =>
        conv.filter = IF TrimSpace(conv.input) = <<>> THEN <<>>
                      ELSE ConvertFrom(ReplaceOperators(conv.input), 1)

-----------------------------------------------------------------------------
(***************************************************************************)
(* Claims about legacy expressions.                                        *)
(***************************************************************************)

\* C31: the predicate ParseAndCreateFilter builds from the legacy expression
\* tag:"X" is true of exactly the records hasTag("X") is true of: those that
\* have a tag equal to X, the case of the letters left aside.
C31_TagRuleEquivalent ==
    (pcf.called /\ conv # NoConv) =>
        /\ pcf.err = "nil"
        /\ \A m \in DOMAIN movies :
              (pcf.program[m] = "true") <=>
                  HasTag(movies[m], SubSeq(exprs[1], 4, Len(exprs[1]) - 1))

-----------------------------------------------------------------------------
(***************************************************************************)
(* Claims about the options of the evaluator.                              *)
(***************************************************************************)

\* C32: for every worker count and batch size, 0 and negative ones included,
\* an Evaluate call on a non-empty list does not panic, and on the parallel
\* path its chunk size is at least 1, so that the submit loop moves on.
C32_OptionsSafe ==
    /\ mainPc # "panic"
    /\ mainPc = "evaluating" => ChunkSize >= 1


(***************************************************************************)
(* Evaluate's three paths (evaluator.go 52-64).                            *)
(***************************************************************************)

\* No work item of the caller exists anywhere in the pool: none is being
\* submitted, none is queued, no worker holds one, and the caller's call
\* never entered evaluateConcurrent.
NoTaskSubmitted ==
    /\ sub[Main] = NoSub
    /\ queue = <<>>
    /\ \A w \in WorkerIds : wst[w].task = NoTask
    /\ ev[Main] = NoEv
    /\ evLog.evaluated = {} /\ evLog.skipped = {}

\* C34: Evaluate on an empty record list returns an empty result and a nil
\* error; on a non-empty list shorter than the batch size it submits no task
\* to the pool at any moment and returns, with a nil error, the matching
\* records in input order; on a list of at least batch-size records the call
\* submits chunk tasks, and when it returns a nil error every record was
\* evaluated by a chunk task.
C34_EvaluatePaths ==
    /\ (mainPc = "done" /\ nmovies = 0) =>
          mainRet = [val |-> <<>>, err |-> "nil"]
    /\ nmovies < batchSize => NoTaskSubmitted /\ mainPc \in {"start", "done"}
    /\ (mainPc = "done" /\ 0 < nmovies /\ nmovies < batchSize) =>
          mainRet = [val |-> SelectSeq(movies,
                                 LAMBDA m : FilterEvaluate(filters[1], m)),
                     err |-> "nil"]
    /\ (mainPc = "done" /\ nmovies >= batchSize) =>
          /\ ev[Main].chunkIndex >= 1
          /\ mainRet.err = "nil" => EvaluatedRecords = 1..nmovies

\* C34's case: a one-record list below a batch size of two was evaluated on
\* the calling thread and its record matched.
C34_Witness ==
    /\ mainPc = "done"
    /\ 0 < nmovies /\ nmovies < batchSize
    /\ NoTaskSubmitted
    /\ mainRet.err = "nil" /\ Len(mainRet.val) = nmovies


(***************************************************************************)
(* The chunks of evaluateConcurrent (evaluator.go 139-186).                *)
(***************************************************************************)

\* The chunk tasks of the caller's call that are on their way: the one being
\* sent, the queued ones and the ones the workers hold.
SendingChunks ==
    IF sub[Main].pc \in {"send", "blocked"} THEN <<sub[Main].task>> ELSE <<>>
HeldChunks ==
    SelectSeq([w \in 1..MaxWorkers |-> wst[w].task],
              LAMBDA task : task.kind = "chunk")
ChunksOnTheWay == SendingChunks \o queue \o HeldChunks

\* The indices of the chunks that have reported or were collected.
ChunksReported ==
    [k \in 1..Len(ev[Main].rchan) |-> ev[Main].rchan[k].order] \o ev[Main].arrived

\* The indices of a sequence of chunk tasks.
IndexOf(tasks) == [k \in 1..Len(tasks) |-> tasks[k].index]

\* A sequence without a repeated element.
NoRepeat(s) == \A a, b \in 1..Len(s) : s[a] = s[b] => a = b

\* C35: on the parallel path with workerCount >= 1 and batchSize >= 1 the
\* chunk of index k is the records k*size+1 .. min((k+1)*size, len) with
\* size = max(len/workerCount, batchSize): every chunk task is non-empty and
\* lies at the place of its index, the chunks submitted so far are the
\* indices 0, 1, 2, ... up to the loop position, no chunk is on its way or
\* reported twice, and when the loop has ended the chunks are exactly the
\* ceil(len/size) ones that cover the list.
C35_Chunking ==
    (ev[Main].pc # "none" /\ workerCount >= 1 /\ batchSize >= 1) =>
        LET size == Max(nmovies \div workerCount, batchSize)
            n == ev[Main].chunkIndex
            Place(k, lo, hi) ==
                /\ k \in 0..(n - 1)
                /\ lo = k * size
                /\ hi = Min(lo + size, nmovies)
                /\ lo < hi
        IN  /\ \A k \in 1..Len(ChunksOnTheWay) :
                  /\ ChunksOnTheWay[k].kind = "chunk"
                  /\ Place(ChunksOnTheWay[k].index, ChunksOnTheWay[k].lo,
                           ChunksOnTheWay[k].hi)
            /\ \A c \in evLog.evaluated : Place(c[2] \div size, c[2], c[3])
            /\ NoRepeat(IndexOf(ChunksOnTheWay) \o ChunksReported)
            /\ \A k \in 1..Len(ChunksReported) : ChunksReported[k] \in 0..(n - 1)
            /\ ev[Main].i = size * (IF sub[Main].pc = "none" THEN n ELSE n - 1)
            /\ ev[Main].pc \in {"collect", "returned"} =>
                  /\ (n - 1) * size < nmovies
                  /\ nmovies <= n * size
            /\ (mainPc = "done" /\ mainRet.err = "nil") =>
                  /\ Len(ev[Main].arrived) = n
                  /\ EvaluatedRecords = 1..nmovies
                  /\ Cardinality(evLog.evaluated) = n

\* C35's case: three records, two workers and a batch size of two give a
\* chunk of two records and a last chunk of one; both were evaluated and
\* collected.
C35_Witness ==
    /\ mainPc = "done" /\ mainRet.err = "nil"
    /\ ev[Main].chunkIndex >= 2
    /\ nmovies % Max(nmovies \div workerCount, batchSize) # 0
    /\ evLog.evaluated = {<<0, 0, 2>>, <<0, 2, 3>>}


(***************************************************************************)
(* Several top-level Evaluate calls on one evaluator (evaluator.go 52-64,  *)
(* 139-220): every call has a resultChan, a WaitGroup and a results map of *)
(* its own, the pool and its queue are shared.  Caller c evaluates filter  *)
(* CallOf(c) over the same record list.                                    *)
(***************************************************************************)
CallOf(c) == c - MaxWorkers

\* Evaluate(ctx, filter, movies) called by caller c.
CallerEvaluate(c) ==
    /\ ~ppanic
    /\ ev[c].pc = "none"
    /\ ev' = [ev EXCEPT ![c] =
                 IF nmovies = 0
                 THEN [NoEv EXCEPT !.pc = "returned", !.call = CallOf(c),
                                   !.ret = [val |-> <<>>, err |-> "nil"]]
                 ELSE IF BelowBatchSize
                 THEN [NoEv EXCEPT !.pc = "returned", !.call = CallOf(c),
                                   !.ret = [val |-> EvaluateSequential(FilterOf(CallOf(c))),
                                            err |-> "nil"]]
                 ELSE EvalStart(CallOf(c))]
    /\ movies' = IF 0 < nmovies /\ BelowBatchSize
                 THEN AppendMatches(FilterOf(CallOf(c)), 0, nmovies) ELSE movies
    /\ UNCHANGED <<workerCount, batchSize, filters, ctxDone, bt, mainPc, mainRet,
                   evLog>>
    /\ UNCHANGED <<cacheVars, poolVars, otherVars>>

\* The filters of the callers: the first matches every record, the second
\* the records at the odd places, the later ones none.
CallerFilters(n) ==
    [k \in 1..MaxCallers |->
        [m \in 1..n |-> IF k = 1 \/ (k = 2 /\ m % 2 = 1) THEN "true" ELSE "false"]]

ConcurrentInit ==
    /\ CacheUnused
    /\ \E w \in 1..MaxWorkers, b \in 1..MaxBatchSize, n \in 0..MaxMovies :
          /\ PoolNew(w)
          /\ workerCount = w
          /\ batchSize = b
          /\ movies = [i \in 1..n |-> i]
          /\ filters = CallerFilters(n)
    /\ ctxDone = FALSE
    /\ ev = [t \in EvalThreads |-> NoEv]
    /\ bt = NoBt
    /\ mainPc = "idle"
    /\ mainRet = NoRet
    /\ evLog = [skipped |-> {}, evaluated |-> {}, unevaluated |-> {},
                ctxAtCall |-> FALSE]

ConcurrentNext ==
    \/ \E c \in Callers : CallerEvaluate(c)
    \/ \E c \in Callers : EvalSubmitChunk(c)
    \/ \E c \in Callers : SubmitSend(c)
    \/ \E c \in Callers : SubmitBlockedSend(c)
    \/ \E c \in Callers : SubmitTimeout(c)
    \/ \E c \in Callers : SubmitRetry(c)
    \/ \E c \in Callers : EvalSubmitReturn(c)
    \/ \E c \in Callers : EvalCollect(c)
    \/ \E c \in Callers : EvalFinish(c)
    \/ \E w \in WorkerIds : WorkerReceive(w)
    \/ \E w \in WorkerIds : WorkerRunChunk(w)

\* The goroutines of the callers and of the workers are all scheduled: a
\* step that stays possible is taken.
ConcurrentSpec ==
    ConcurrentInit /\ [][ConcurrentNext]_vars /\ WF_vars(ConcurrentNext)

\* What a call of caller c returns when it runs alone: the matching records
\* in input order and a nil error.
AloneResult(c) ==
    [val |-> SelectSeq(movies, LAMBDA m : FilterEvaluate(filters[CallOf(c)], m)),
     err |-> "nil"]

\* A call that returned, returned its own result; the chunk results it holds
\* are those of its own filter, each chunk at most once.
OwnResults ==
    \A c \in Callers :
        /\ ev[c].pc = "returned" => ev[c].ret = AloneResult(c)
        /\ \A k \in 1..Len(ev[c].rchan) :
              \E lo \in 0..nmovies, hi \in 0..nmovies :
                 /\ <<CallOf(c), lo, hi>> \in evLog.evaluated
                 /\ lo = ev[c].rchan[k].order * ChunkSize
                 /\ ev[c].rchan[k].matches =
                       SelectSeq(SubSeq(movies, lo + 1, hi),
                                 LAMBDA m : FilterEvaluate(filters[CallOf(c)], m))
        /\ NoRepeat([k \in 1..Len(ev[c].rchan) |-> ev[c].rchan[k].order]
                        \o ev[c].arrived)

AllReturned == \A c \in Callers : ev[c].pc = "returned"

\* C33: when several top-level Evaluate calls run concurrently on one
\* evaluator whose pool is not stopped, every call eventually returns, its
\* result is the one it returns when run alone, and no chunk result reaches
\* another call or reaches its call twice.
C33_ConcurrentCalls == []OwnResults /\ <>[]AllReturned

\* C33's case: the calls took the parallel path with at least two chunks
\* each, one of them received its chunks out of order, and all returned,
\* with different results.
C33_Witness ==
    /\ AllReturned
    /\ \A c \in Callers : ev[c].chunkIndex >= 2
    /\ \A c, d \in Callers : c # d => ev[c].ret.val # ev[d].ret.val
    /\ \E c \in Callers : Head(ev[c].arrived) # 0


(***************************************************************************)
(* Two Stop calls at the same time (pool.go 80-103).                       *)
(***************************************************************************)
StopRaceInit == PoolInit

StopRaceNext ==
    \/ \E c \in Callers : CallerSubmit(c)
    \/ \E c \in Callers : CallerReturn(c)
    \/ \E c \in Callers : SubmitSend(c)
    \/ \E c \in Callers : SubmitBlockedSend(c)
    \/ \E c \in Callers : SubmitTimeout(c)
    \/ \E c \in Callers : SubmitRetry(c)
    \/ \E w \in WorkerIds : WorkerReceive(w)
    \/ \E w \in WorkerIds : WorkerRunWork(w)
    \/ \E w \in WorkerIds : WorkerExit(w)
    \/ StopStore
    \/ StopClose
    \/ StopDone
    \/ StopDeadline
    \/ StopOther
    \/ StopOtherDeadline
    \/ StopOtherReturn

StopRaceSpec == StopRaceInit /\ [][StopRaceNext]_vars

\* C36: a Stop call does not outlast its own deadline: the first call whose
\* deadline fired has returned, and so has a Stop call that was made while
\* the first call was still waiting for the workers.
C36_StopWithinDeadline ==
    /\ stopLog.expired => stopPc = "done"
    /\ stopLog.otherExpired => stopLog.other = "returned"


(***************************************************************************)
(* EvaluateAll while another thread registers and unregisters filters      *)
(* (manager.go 56-63, 88-92, 125-133).                                     *)
(***************************************************************************)
\* A manager with a registry of 0..MaxNames filters and an evaluator of
\* batch size MaxBatchSize.
SnapshotInit == ManagerEvalInit /\ batchSize = MaxBatchSize

\* Thread 1 calls EvaluateAll, thread 2 RegisterFilter or UnregisterFilter.
SnapshotOps(t) ==
    IF t = 1 THEN {"EvaluateAll"} ELSE {"RegisterFilter", "UnregisterFilter"}

\* The work items of one batch fit into the queue: Submit never waits.
\* The calls: thread 1 makes its one call; thread 2 makes its call once
\* thread 1 has copied the registry and released the lock, at any moment
\* of the evaluation or after it.
SnapshotCall(t, c) ==
    /\ c.op \in SnapshotOps(t)
    /\ (t = 1) = (\A i \in DOMAIN mhist.log : ~mhist.log[i].submitted)
    /\ Call(t, c)

SnapshotNext ==
    \/ \E t \in Threads, c \in Calls : SnapshotCall(t, c)
    \/ \E t \in Threads : Lock(t)
    \/ \E t \in Threads : WriteStep(t)
    \/ \E t \in Threads : Unlock(t)
    \/ \E t \in Threads : RLock(t)
    \/ \E t \in Threads : ReadStep(t)
    \/ \E t \in Threads : RUnlock(t)
    \/ ManagerEvaluate
    \/ ManagerEvaluateBatch
    \/ \E name \in FilterNames : BatchSubmitFilter(name)
    \/ BatchSubmitReturn
    \/ BatchCollect
    \/ BatchFinish
    \/ \E t \in EvalThreads : EvalSubmitChunk(t)
    \/ \E t \in EvalThreads : SubmitSend(t)
    \/ \E t \in EvalThreads : EvalSubmitReturn(t)
    \/ \E t \in EvalThreads : EvalCollect(t)
    \/ \E t \in EvalThreads : EvalFinish(t)
    \/ \E w \in WorkerIds : WorkerReceive(w)
    \/ \E w \in WorkerIds : WorkerRunFilter(w)
    \/ \E w \in WorkerIds : WorkerFilterReturn(w)
    \/ \E w \in WorkerIds : WorkerRunChunk(w)

SnapshotSpec == SnapshotInit /\ [][SnapshotNext]_vars

\* The EvaluateAll call has made its copy and released the lock.
Copied == \E i \in DOMAIN mhist.log : mhist.log[i].submitted

\* The registry at the moment of the copy: the one the last write before the
\* call's RUnlock left.
Snapshot == mhist.vers[Passed.v1]

\* The writes that completed after the copy.
LaterWrites ==
    {i \in DOMAIN mhist.log : mhist.log[i].op \in Writers /\ mhist.log[i].v1 > Passed.v1}

\* C37: EvaluateAll hands the evaluator exactly the filters the registry held
\* when it was copied, whatever RegisterFilter and UnregisterFilter calls
\* complete afterwards: the keys of its result are names of that registry
\* (all of them, for a non-empty record list), each with the records the
\* filter registered then matches; and the calling thread does not hold the
\* registry lock once the copy is made, while the evaluation runs.
C37_SnapshotEvaluated ==
    Copied =>
        /\ Passed.t \notin mu.readers
        /\ mainPc # "idle" =>
              /\ DOMAIN filters = DOMAIN Snapshot
              /\ \A name \in DOMAIN filters :
                    filters[name] = ExprProgram(Snapshot[name].expression)
        /\ (mainPc = "done" /\ mainRet.err = "nil") =>
              /\ DOMAIN mainRet.val \subseteq DOMAIN Snapshot
              /\ nmovies > 0 => DOMAIN mainRet.val = DOMAIN Snapshot
              /\ \A name \in DOMAIN mainRet.val :
                    mainRet.val[name] =
                        Matching(ExprProgram(Snapshot[name].expression))

\* C37's case: while the batch of an EvaluateAll call over two filters was
\* being collected, an UnregisterFilter call took the lock, removed a name
\* and returned; the call then returned the matches of both filters.
C37_Witness ==
    /\ Copied
    /\ mainPc = "done" /\ mainRet.err = "nil"
    /\ LaterWrites # {}
    /\ Cardinality(DOMAIN mainRet.val) = 2
    /\ DOMAIN registry # DOMAIN mainRet.val
    /\ \E name \in DOMAIN mainRet.val : mainRet.val[name] # <<>>


(***************************************************************************)
(* The evaluating calls of a manager after Close (manager.go 115-154,      *)
(* pool.go 55-58, 80-103).                                                 *)
(***************************************************************************)
ClosedInit == ManagerEvalInit

\* A thread calls the Manager after Close has returned.
ClosedCall(c) == stopPc = "done" /\ ManagerCall(1, c)

\* Close stops the idle pool; then one evaluating call is made.
ClosedNext ==
    \/ StopStore
    \/ StopClose
    \/ \E w \in WorkerIds : WorkerExit(w)
    \/ StopDone
    \/ StopDeadline
    \/ \E c \in EvalCalls : ClosedCall(c)
    \/ \E t \in Threads : RLock(t)
    \/ \E t \in Threads : ReadStep(t)
    \/ \E t \in Threads : SelectNotFound(t)
    \/ \E t \in Threads : RUnlock(t)
    \/ ManagerEvaluate
    \/ ManagerEvaluateFilter
    \/ ManagerEvaluateBatch
    \/ MainEvaluateReturn
    \/ \E name \in FilterNames : BatchSubmitFilter(name)
    \/ BatchSubmitReturn
    \/ EvalSubmitChunk(Main)
    \/ EvalSubmitReturn(Main)

ClosedSpec == ClosedInit /\ [][ClosedNext]_vars

\* C38: after Close has returned, an EvaluateAll or EvaluateSelected call
\* that reaches the evaluator with a non-empty filter map and a non-empty
\* record list, and an EvaluateFilter call of a registered filter over at
\* least batch-size records, return ErrPoolStopped and no results; an
\* EvaluateFilter call over a shorter list returns, with a nil error, the
\* records its filter matches.  No Submit call is let into the closed queue
\* and no work item is run.
C38_ClosedManager ==
    /\ ~ppanic
    /\ queue = <<>>
    /\ evLog.evaluated = {}
    /\ stopPc = "done" => sub[Main].pc \in {"none", "stopped"}
    /\ mainPc = "done" =>
          IF Passed.op = "EvaluateFilter"
          THEN IF nmovies >= batchSize
               THEN mainRet = [val |-> <<>>, err |-> "ErrPoolStopped"]
               ELSE mainRet = [val |-> Matching(filters[1]), err |-> "nil"]
          ELSE (DOMAIN filters # {} /\ nmovies > 0) =>
                   mainRet = [val |-> <<>>, err |-> "ErrPoolStopped"]

\* C38's case: Close returned nil after the workers' exit and an EvaluateAll
\* call over two filters and a non-empty list returned ErrPoolStopped.
C38_Witness ==
    /\ stopRet = "nil"
    /\ mainPc = "done"
    /\ Passed.op = "EvaluateAll"
    /\ Cardinality(DOMAIN filters) = 2
    /\ nmovies > 0
    /\ mainRet = [val |-> <<>>, err |-> "ErrPoolStopped"]


(***************************************************************************)
(* The pool of an evaluator made with any worker count (pool.go 24-52,     *)
(* evaluator.go 45).                                                       *)
(***************************************************************************)

\* NewConcurrentEvaluator(WithWorkers(w)): the evaluator keeps the option and
\* calls NewWorkerPool(e.workerCount).
PoolAnyInit ==
    /\ CacheUnused
    /\ \E w \in -1..MaxWorkers :
          /\ EvalNew(w, 1, 0, <<>>)
          /\ PoolNew(w)

PoolAnySpec == PoolAnyInit /\ [][PoolNext]_vars

\* The workers that run a work item, and the workers the pool started.
Running == {w \in WorkerIds : wst[w].pc = "run"}
Started == {w \in WorkerIds : wst[w].pc # "absent"}

\* A worker takes a work item only when it holds none, and it takes the one
\* at the head of the queue.
TakesOneAtATime ==
    \A w \in WorkerIds :
        (wst'[w].task # wst[w].task /\ wst'[w].task # NoTask) =>
            /\ wst[w] = [pc |-> "idle", task |-> NoTask]
            /\ queue # <<>> /\ wst'[w].task = Head(queue)
            /\ queue' = Tail(queue)

\* The numbers of workers, of work items being run and of work items
\* waiting.
WithinBounds ==
    /\ workers = (IF workerCount <= 0 THEN 1 ELSE workerCount)
    /\ Cardinality(Started) = workers
    /\ Cardinality(Running) <= workers
    /\ \A v, w \in Running : wst[v].task = wst[w].task => v = w
    /\ \A w \in WorkerIds : (wst[w].task # NoTask) = (w \in Running)
    /\ Len(queue) <= 2 * workers

\* C39: a pool made with a worker count of 0 or less has exactly one worker,
\* else as many as asked for; at every moment at most that many work items
\* are being run, no work item by two workers, and at most twice that many
\* wait in the queue; and a worker takes its next work item only after it
\* finished the one before.
C39_PoolBounds == []WithinBounds /\ [][TakesOneAtATime]_vars

\* C39's case: the pool was asked for 0 or fewer workers; its one worker
\* runs a work item while two wait in the full queue.
C39_Witness ==
    /\ workerCount <= 0
    /\ Cardinality(Started) = 1
    /\ Cardinality(Running) = 1
    /\ Len(queue) = 2

=============================================================================
